---- MODULE Spec2Model ----
(***************************************************************************)
(* A model of the client / tag / screen / input core of gabelstaplerwm.    *)
(*                                                                         *)
(*   ScreenSet, Screen, TagStack, TagSet, Client, SubsetTree, ClientSet    *)
(*       src/src/wm/client.rs                                              *)
(*   ModeSwitchDesc, CmdDesc, ChordDesc, ChainDesc                         *)
(*       src/gwm-kbd/src/kbd/desc.rs                                       *)
(*                                                                         *)
(* Rust's Option<T> is modelled as a sequence of length at most one:       *)
(* None is <<>> and Some(x) is <<x>>.  Vec indices are 0-based in the      *)
(* source; a Vec is a TLA+ sequence and element i of the source is element *)
(* i + 1 of the sequence.                                                  *)
(***************************************************************************)
EXTENDS Integers, Sequences, FiniteSets, TLC

VARIABLES
    screens,        \* ScreenSet.screens : Vec<(Crtc, Screen)>
    current_screen, \* ScreenSet.current_screen : usize
    tag_stack,      \* a TagStack { tagsets, hidden, history }
    bindings,       \* the binding table: (mode, chain) -> CmdDesc
    current_mode,   \* the input state machine's current mode
    previous_mode,  \* the mode to fall back to from a temporary mode
    pending_chain,  \* the chords received since the last dispatch or drop
    tree,           \* a SubsetTree { arena, root, focused, selected }
    clients,        \* ClientSet.clients : HashMap<Window, Client>
    order,          \* ClientSet.order : HashMap<BTreeSet<Tag>, SubsetTree>
    call,           \* the last call made: its name, argument and return value
    panic           \* the panic message once a call has panicked, "" before

screenVars == <<screens, current_screen>>
kbdVars == <<bindings, current_mode, previous_mode, pending_chain>>
clientVars == <<clients, order>>

vars == <<screens, current_screen, tag_stack, bindings, current_mode,
          previous_mode, pending_chain, tree, clients, order, call, panic>>

None == <<>>
Some(x) == <<x>>
is_some(o) == o /= <<>>
unwrap(o) == o[1]

Call(op, arg, ret) == [op |-> op, arg |-> arg, ret |-> ret]
NoCall == Call("new", None, None)

Last(s) == s[Len(s)]

(***************************************************************************)
(* Bounds of the model.                                                    *)
(***************************************************************************)
MaxCrtc == 2
MaxOff == 1
MaxDim == 2
MaxIdx == 3

Crtcs == 1..MaxCrtc

(***************************************************************************)
(* Tags and tagsets.                                                       *)
(***************************************************************************)
Tags == {"Web", "Work0", "Work1"}

TagSet_new(tags, layout) == [tags |-> tags, layout |-> layout]

\* The tagsets handed to TagStack::setup and TagStack::add.
PresetTagSet(i) ==
    CASE i = 0 -> TagSet_new({"Web"}, "VStack")
      [] i = 1 -> TagSet_new({"Work0"}, "VStack")
      [] i = 2 -> TagSet_new({"Work0", "Work1"}, "HStack")
      [] OTHER -> TagSet_new({"Work1"}, "Monocle")

(***************************************************************************)
(* TagStack                                                                *)
(***************************************************************************)
Idx == 0..MaxIdx

HistoryCap == 4

TagStack_default == [tagsets |-> <<>>, hidden |-> {}, history |-> <<>>]

contains_key(map, k) == k \in DOMAIN map

\* TagStack::setup: tagset i of vec gets index i; viewed is pushed if known.
TagStack_setup(ts, vec, viewed) ==
    LET tagsets == [i \in 0..(Len(vec) - 1) |-> vec[i + 1]]
    IN  [tagsets |-> tagsets,
         hidden  |-> {},
         history |-> IF contains_key(tagsets, viewed) THEN <<viewed>> ELSE <<>>]

TagStack_current_index(ts) ==
    IF ts.history = <<>> THEN None ELSE Some(Last(ts.history))

TagStack_current(ts) ==
    IF ts.history = <<>> THEN None
    ELSE IF contains_key(ts.tagsets, Last(ts.history))
         THEN Some(ts.tagsets[Last(ts.history)])
         ELSE None

TagStack_push_in_front(ts, new_index) ==
    IF contains_key(ts.tagsets, new_index)
    THEN LET len == Len(ts.history)
             kept == IF len >= HistoryCap
                     THEN SubSeq(ts.history, len - (HistoryCap - 1) + 1, len)
                     ELSE ts.history
         IN  [ts EXCEPT !.history = <<new_index>> \o kept]
    ELSE ts

TagStack_push_off_by_one(ts, new_index) ==
    IF contains_key(ts.tagsets, new_index)
    THEN LET len == Len(ts.history)
             kept == IF len >= HistoryCap
                     THEN SubSeq(ts.history, len - HistoryCap + 1, len)
                     ELSE ts.history
         IN  [ts EXCEPT !.history = Append(kept, new_index)]
    ELSE ts

\* TagStack::push: history.drain(..len - 3) keeps the last three entries.
TagStack_push(ts, new_index) ==
    IF contains_key(ts.tagsets, new_index)
    THEN LET len == Len(ts.history)
             kept == IF len >= HistoryCap
                     THEN SubSeq(ts.history, len - (HistoryCap - 1) + 1, len)
                     ELSE ts.history
         IN  [ts EXCEPT !.history = Append(kept, new_index)]
    ELSE ts

\* TagStack::add returns true when the index was occupied (nothing inserted).
TagStack_add_ret(ts, index) == contains_key(ts.tagsets, index)

TagStack_add(ts, index, value) ==
    IF contains_key(ts.tagsets, index) THEN ts
    ELSE [ts EXCEPT !.tagsets =
            [k \in DOMAIN ts.tagsets \cup {index} |->
                IF k = index THEN value ELSE ts.tagsets[k]]]

TagStack_remove_ret(ts, index) == contains_key(ts.tagsets, index)

TagStack_remove_keeps_history(ts, index) ==
    IF contains_key(ts.tagsets, index)
    THEN [ts EXCEPT !.tagsets = [k \in DOMAIN ts.tagsets \ {index} |-> ts.tagsets[k]]]
    ELSE ts

\* TagStack::remove: the index leaves the tagsets and the history.
TagStack_remove(ts, index) ==
    IF contains_key(ts.tagsets, index)
    THEN LET keep(i) == i /= index
         IN  [ts EXCEPT
                !.tagsets = [k \in DOMAIN ts.tagsets \ {index} |-> ts.tagsets[k]],
                !.history = SelectSeq(ts.history, keep)]
    ELSE ts

TagStack_view_prev_ret(ts) == ts.history /= <<>>

TagStack_view_prev_keeps(ts) == ts

\* TagStack::view_prev: history.pop()
TagStack_view_prev(ts) ==
    IF ts.history = <<>> THEN ts
    ELSE [ts EXCEPT !.history = SubSeq(ts.history, 1, Len(ts.history) - 1)]

TagStack_set_hidden_all(ts, hide) == [ts EXCEPT !.hidden = hide]

\* TagStack::set_hidden: the tags of the current tagset that are to be hidden.
TagStack_set_hidden(ts, hide) ==
    LET cur == TagStack_current(ts)
    IN  [ts EXCEPT !.hidden =
            IF is_some(cur) THEN unwrap(cur).tags \cap hide ELSE {}]

(***************************************************************************)
(* The arena of a SubsetTree: slots numbered from 0, a vacant slot is       *)
(* reused by the next insertion, the most recently vacated one first.      *)
(***************************************************************************)
MaxSlots == 5
MaxWindow == 2

Windows == 1..MaxWindow

Vacant == [kind |-> "Vacant"]
SplitEntry(parent, split, children) ==
    [kind |-> "Split", parent |-> parent, split |-> split, children |-> children]
ClientEntry(parent, window) ==
    [kind |-> "Client", parent |-> parent, window |-> window]

Range(s) == {s[i] : i \in 1..Len(s)}

\* SubsetTree::new
SubsetTree_new ==
    [arena |-> [i \in {} |-> Vacant], free |-> <<>>,
     root |-> None, focused |-> None, selected |-> None, panicked |-> FALSE]

arena_len(t) == Cardinality(DOMAIN t.arena)

\* Whether arena[id] is an entry; indexing a vacant slot panics.
live(t, id) == id \in DOMAIN t.arena /\ t.arena[id].kind /= "Vacant"

Panicked(t) == [t EXCEPT !.panicked = TRUE]

\* The slot Arena::insert will hand out.
next_slot(t) == IF t.free = <<>> THEN arena_len(t) ELSE Head(t.free)

\* Arena::insert
arena_insert(t, entry) ==
    IF t.free = <<>>
    THEN [t EXCEPT !.arena = [i \in 0..arena_len(t) |->
                                 IF i = arena_len(t) THEN entry ELSE t.arena[i]]]
    ELSE [t EXCEPT !.arena[Head(t.free)] = entry, !.free = Tail(t.free)]

\* Arena::remove: no effect on a vacant slot.
arena_remove(t, id) ==
    IF live(t, id)
    THEN [t EXCEPT !.arena[id] = Vacant, !.free = <<id>> \o t.free]
    ELSE t

\* SubsetEntry::find_child: Ok(position, from 0) or an error.
find_child(entry, child) ==
    IF entry.kind /= "Split" THEN [ok |-> FALSE, err |-> "WrongKindOfNode"]
    ELSE IF child \in Range(entry.children)
    THEN [ok |-> TRUE,
          pos |-> (CHOOSE i \in 1..Len(entry.children) :
                      /\ entry.children[i] = child
                      /\ \A j \in 1..(i - 1) : entry.children[j] /= child) - 1]
    ELSE [ok |-> FALSE, err |-> "WrongParent"]

\* SubsetEntry::remove_child: children.retain(|c| *c != child)
remove_child(entry, child) ==
    IF entry.kind = "Split"
    THEN LET keep(c) == c /= child
         IN  [entry EXCEPT !.children = SelectSeq(entry.children, keep)]
    ELSE entry

\* SubsetTree::get_parent: Ok(parent, index), an error, or a panic when a
\* vacant slot is indexed.
get_parent(t, node) ==
    IF ~live(t, node) THEN [ok |-> FALSE, err |-> "panic"]
    ELSE IF t.arena[node].parent = None THEN [ok |-> FALSE, err |-> "Orphan"]
    ELSE LET parent == unwrap(t.arena[node].parent)
         IN  IF ~live(t, parent) THEN [ok |-> FALSE, err |-> "panic"]
             ELSE LET found == find_child(t.arena[parent], node)
                  IN  IF found.ok
                      THEN [ok |-> TRUE, parent |-> parent, index |-> found.pos]
                      ELSE found

\* Vec::insert(pos, child), or push when pos is beyond the end.
insert_at(children, pos, child) ==
    IF pos > Len(children) THEN Append(children, child)
    ELSE SubSeq(children, 1, pos) \o <<child>>
            \o SubSeq(children, pos + 1, Len(children))

\* SubsetTree::add_child
add_child(t, parent, child, pos) ==
    IF t.panicked THEN t
    ELSE IF ~live(t, parent) THEN Panicked(t)
    ELSE IF find_child(t.arena[parent], child) = [ok |-> FALSE, err |-> "WrongParent"]
    THEN LET t1 == [t EXCEPT !.arena[parent].children =
                        insert_at(t.arena[parent].children, pos, child)]
         IN  IF ~live(t1, child) THEN Panicked(t)
             ELSE LET old == t1.arena[child].parent
                  IN  IF old = None
                      THEN [t1 EXCEPT !.arena[child].parent = Some(parent)]
                      ELSE IF ~live(t1, unwrap(old)) THEN Panicked(t)
                      ELSE [t1 EXCEPT
                              !.arena[unwrap(old)] =
                                  remove_child(t1.arena[unwrap(old)], child),
                              !.arena[child].parent = Some(parent)]
    ELSE t

saturating_sub(a, b) == IF a >= b THEN a - b ELSE 0

InsertBias == {"BelowLeft", "BelowRight", "NextToLeft", "NextToRight"}
SplitDirection == {"Horizontal", "Vertical"}

\* The two wrapping arms of SubsetTree::add: a new split takes the new node
\* and the reference as its children.
wrap(t, node, reference, split, node_first) ==
    LET parent == next_slot(t)
        t1 == arena_insert(t, SplitEntry(None, split, <<>>))
    IN  IF node_first
        THEN add_child(add_child(t1, parent, node, 0), parent, reference, 1)
        ELSE add_child(add_child(t1, parent, reference, 0), parent, node, 1)

\* SubsetTree::add
SubsetTree_add(t, client, focus, direction, split) ==
    LET node == next_slot(t)
        t1 == arena_insert(t, ClientEntry(None, client))
        reference == IF is_some(t.selected) THEN t.selected ELSE t.focused
        placed ==
            IF reference = None THEN t1
            ELSE LET ref == unwrap(reference)
                     gp == get_parent(t1, ref)
                 IN  IF ~gp.ok /\ gp.err = "panic" THEN Panicked(t)
                     ELSE IF gp.ok /\ direction = "NextToLeft"
                     THEN add_child(t1, gp.parent, node, saturating_sub(gp.index, 1))
                     ELSE IF gp.ok /\ direction = "NextToRight"
                     THEN add_child(t1, gp.parent, node, gp.index)
                     ELSE IF \/ (~gp.ok /\ gp.err = "Orphan" /\ direction = "NextToLeft")
                             \/ direction = "BelowLeft"
                     THEN wrap(t1, node, ref, split, TRUE)
                     ELSE IF \/ (~gp.ok /\ gp.err = "Orphan" /\ direction = "NextToRight")
                             \/ direction = "BelowRight"
                     THEN wrap(t1, node, ref, split, FALSE)
                     ELSE Panicked(t)
    IN  IF placed.panicked THEN Panicked(t)
        ELSE IF focus \/ placed.focused = None
        THEN [placed EXCEPT !.focused = Some(node)]
        ELSE placed

\* SubsetTree::enumerate_subtree: the nodes below and including the first
\* node of the queue, breadth first; <<-1>> when a vacant slot is indexed.
RECURSIVE enumerate_queue(_, _, _)
enumerate_queue(t, queue, fuel) ==
    IF queue = <<>> \/ fuel = 0 THEN <<>>
    ELSE LET next == Head(queue)
         IN  IF ~live(t, next) THEN <<-1>>
             ELSE LET children == IF t.arena[next].kind = "Split"
                                  THEN t.arena[next].children ELSE <<>>
                  IN  <<next>> \o enumerate_queue(t, Tail(queue) \o children, fuel - 1)

enumerate_subtree(t, node) == enumerate_queue(t, <<node>>, 2 * MaxSlots)

RECURSIVE remove_nodes(_, _)
remove_nodes(t, nodes) ==
    IF nodes = <<>> THEN t
    ELSE remove_nodes(arena_remove(t, Head(nodes)), Tail(nodes))

\* SubsetTree::remove_subtree
SubsetTree_remove_subtree(t) ==
    LET sel == IF is_some(t.selected) THEN t.selected ELSE t.focused
    IN  IF sel = None THEN t
        ELSE LET node == unwrap(sel)
                 gp == get_parent(t, node)
                 t1 == IF gp.ok
                       THEN [t EXCEPT !.arena[gp.parent] =
                                remove_child(t.arena[gp.parent], gp.index)]
                       ELSE t
                 nodes == enumerate_subtree(t1, node)
                 t2 == remove_nodes(t1, nodes)
             IN  IF (~gp.ok /\ gp.err = "panic") \/ -1 \in Range(nodes)
                 THEN Panicked(t)
                 ELSE IF gp.ok
                 THEN [t2 EXCEPT !.selected = None]
                 ELSE [t2 EXCEPT !.selected = None, !.focused = None]

\* SubsetTree::remove: the body is empty.
SubsetTree_remove(t, window) == t

\* SubsetTree::swap_subtrees: the body is empty.
SubsetTree_swap_subtrees(t, direction) == t

\* SubsetTree::get_focused panics in its unreachable!() arm (no focused
\* node, or a focused split) and when the focused slot is vacant.
SubsetTree_get_focused_panics(t) ==
    \/ t.focused = None
    \/ ~live(t, unwrap(t.focused))
    \/ t.arena[unwrap(t.focused)].kind /= "Client"

\* SubsetTree::get_focused
SubsetTree_get_focused(t) == Some(t.arena[unwrap(t.focused)].window)

(***************************************************************************)
(* Screen and ScreenSet                                                    *)
(***************************************************************************)
TilingArea(x, y, w, h) == [offset_x |-> x, offset_y |-> y, width |-> w, height |-> h]

\* #[derive(Default)] for Screen: a zero area, a clean tag stack, no neighbours.
Screen_default ==
    [area |-> TilingArea(0, 0, 0, 0), tag_stack |-> TagStack_default,
     top |-> None, right |-> None, bottom |-> None, left |-> None]

Screen_new(area, ts) ==
    [area |-> area, tag_stack |-> ts,
     top |-> None, right |-> None, bottom |-> None, left |-> None]

Screen_swap_dimensions(screen) ==
    [screen EXCEPT !.area = TilingArea(screen.area.offset_y, screen.area.offset_x,
                                       screen.area.height, screen.area.width)]

\* An entry (Crtc, Screen) of ScreenSet.screens.
Entry(crtc, screen) == [crtc |-> crtc, screen |-> screen]

\* Vec::get(current_screen)
ScreenSet_get(scr, i) == IF i < Len(scr) THEN Some(scr[i + 1]) ELSE None

\* The randr rotation bitfield, as the set of the bits that are set.
Rotations == {{"ROTATE_0"}, {"ROTATE_90"}, {"ROTATE_180", "REFLECT_X"},
              {"ROTATE_270", "REFLECT_Y"}}

IsRotated_only_90(rotation) == "ROTATE_90" \in rotation

\* rotation & (ROTATE_90 | ROTATE_270) != 0
IsRotated(rotation) == rotation \cap {"ROTATE_90", "ROTATE_270"} /= {}

\* The CrtcChange events the display adapter delivers.
CrtcChanges ==
    [crtc : Crtcs, x : 0..MaxOff, y : {0},
     width : {MaxDim}, height : {1}, rotation : Rotations]

\* The screens the window manager starts with.
InitialScreen(c) ==
    Screen_new(TilingArea(0, 0, MaxDim, 1),
               TagStack_setup(TagStack_default, <<PresetTagSet(0), PresetTagSet(1)>>, 1))

DistinctCrtcs(scr) ==
    \A i, j \in 1..Len(scr) : i /= j => scr[i].crtc /= scr[j].crtc

\* The parts of the window manager a specification leaves out stay as built.
IdleScreenSet == screens = <<>> /\ current_screen = 0
IdleTagStack == tag_stack = TagStack_default
IdleKbd ==
    /\ bindings = <<>>
    /\ current_mode = 0
    /\ previous_mode = None
    /\ pending_chain = <<>>
IdleTree == tree = SubsetTree_new
IdleClientSet == clients = <<>> /\ order = <<>>

\* ScreenSet::new: Some for a non-empty list, current_screen = 0.
ScreenSet_new(list) ==
    /\ list /= <<>>
    /\ screens = list
    /\ current_screen = 0

ScreenSet_rotate ==
    /\ panic = ""
    /\ screens' = [i \in 1..Len(screens) |->
                      Entry(screens[i].crtc, Screen_swap_dimensions(screens[i].screen))]
    /\ call' = Call("rotate", None, None)
    /\ UNCHANGED <<current_screen, tag_stack, kbdVars, tree, clientVars, panic>>

ScreenSet_change_screen_inclusive(new) ==
    /\ panic = ""
    /\ LET len == Len(screens)
       IN  IF new <= len
           THEN /\ current_screen' = new
                /\ call' = Call("change_screen", Some(new), Some(TRUE))
           ELSE /\ current_screen' = current_screen
                /\ call' = Call("change_screen", Some(new), Some(FALSE))
    /\ UNCHANGED <<screens, tag_stack, kbdVars, tree, clientVars, panic>>

\* ScreenSet::change_screen: new is the value f(current_screen, len) returns.
ScreenSet_change_screen(new) ==
    /\ panic = ""
    /\ LET len == Len(screens)
       IN  IF new < len
           THEN /\ current_screen' = new
                /\ call' = Call("change_screen", Some(new), Some(TRUE))
           ELSE /\ current_screen' = current_screen
                /\ call' = Call("change_screen", Some(new), Some(FALSE))
    /\ UNCHANGED <<screens, tag_stack, kbdVars, tree, clientVars, panic>>

ScreenSet_remove(old_crtc) ==
    /\ panic = ""
    /\ LET cur == ScreenSet_get(screens, current_screen)
           keep(e) == e.crtc /= old_crtc
       IN  IF is_some(cur)
           THEN /\ current_screen' = IF unwrap(cur).crtc = old_crtc
                                     THEN 0 ELSE current_screen
                /\ screens' = SelectSeq(screens, keep)
                /\ call' = Call("remove", Some(old_crtc),
                                Some(unwrap(cur).crtc = old_crtc))
                /\ panic' = panic
           ELSE /\ panic' = "logic error in ScreenSet :O"
                /\ call' = Call("remove", Some(old_crtc), None)
                /\ UNCHANGED <<screens, current_screen>>
    /\ UNCHANGED <<tag_stack, kbdVars, tree, clientVars>>

ScreenSet_update_fresh_screen(change) ==
    /\ panic = ""
    /\ LET known == \E i \in 1..Len(screens) : screens[i].crtc = change.crtc
           list == IF known THEN screens
                   ELSE Append(screens, Entry(change.crtc, Screen_default))
           pos == CHOOSE i \in 1..Len(list) :
                     /\ list[i].crtc = change.crtc
                     /\ \A j \in 1..(i - 1) : list[j].crtc /= change.crtc
           moved == [Screen_default EXCEPT
                        !.area = TilingArea(change.x, change.y,
                                            change.width, change.height)]
           screen == IF IsRotated(change.rotation)
                     THEN Screen_swap_dimensions(moved) ELSE moved
       IN  screens' = [list EXCEPT ![pos] = Entry(change.crtc, screen)]
    /\ call' = Call("update", Some(change), None)
    /\ UNCHANGED <<current_screen, tag_stack, kbdVars, tree, clientVars, panic>>

ScreenSet_update_always_push(change) ==
    /\ panic = ""
    /\ LET list == Append(screens, Entry(change.crtc, Screen_default))
           pos == CHOOSE i \in 1..Len(list) :
                     /\ list[i].crtc = change.crtc
                     /\ \A j \in 1..(i - 1) : list[j].crtc /= change.crtc
           moved == [list[pos].screen EXCEPT
                        !.area = TilingArea(change.x, change.y,
                                            change.width, change.height)]
           screen == IF IsRotated(change.rotation)
                     THEN Screen_swap_dimensions(moved) ELSE moved
       IN  screens' = [list EXCEPT ![pos] = Entry(change.crtc, screen)]
    /\ call' = Call("update", Some(change), None)
    /\ UNCHANGED <<current_screen, tag_stack, kbdVars, tree, clientVars, panic>>

\* ScreenSet::update: the screen of the CRTC is created if there is none.
ScreenSet_update(change) ==
    /\ panic = ""
    /\ LET known == \E i \in 1..Len(screens) : screens[i].crtc = change.crtc
           list == IF known THEN screens
                   ELSE Append(screens, Entry(change.crtc, Screen_default))
           pos == CHOOSE i \in 1..Len(list) :
                     /\ list[i].crtc = change.crtc
                     /\ \A j \in 1..(i - 1) : list[j].crtc /= change.crtc
           moved == [list[pos].screen EXCEPT
                        !.area = TilingArea(change.x, change.y,
                                            change.width, change.height)]
           screen == IF IsRotated(change.rotation)
                     THEN Screen_swap_dimensions(moved) ELSE moved
       IN  screens' = [list EXCEPT ![pos] = Entry(change.crtc, screen)]
    /\ call' = Call("update", Some(change), None)
    /\ UNCHANGED <<current_screen, tag_stack, kbdVars, tree, clientVars, panic>>

InitScreenSet ==
    /\ \E list \in UNION {[1..n -> {Entry(c, InitialScreen(c)) : c \in Crtcs}] : n \in 1..2} :
          /\ DistinctCrtcs(list)
          /\ ScreenSet_new(list)
    /\ IdleTagStack /\ IdleKbd /\ IdleTree /\ IdleClientSet
    /\ call = NoCall
    /\ panic = ""

NextScreenSet ==
    \/ ScreenSet_rotate
    \/ \E new \in 0..MaxCrtc : ScreenSet_change_screen(new)
    \/ \E crtc \in Crtcs : ScreenSet_remove(crtc)
    \/ \E change \in CrtcChanges : ScreenSet_update(change)

SpecScreenSet == InitScreenSet /\ [][NextScreenSet]_vars

\* C1: whenever screens is non-empty, current_screen < screens.len(), so
\* current() and current_mut() find a screen at current_screen.
C1_CurrentScreenInBounds ==
    screens /= <<>> => current_screen < Len(screens)

\* The CRTC of the current screen, if current_screen names an entry.
current_crtc == LET cur == ScreenSet_get(screens, current_screen)
                IN  IF is_some(cur) THEN Some(unwrap(cur).crtc) ELSE None

\* C14: remove(crtc) returns, deletes exactly the entries whose CRTC is crtc
\* and keeps the others in their order; it returns true if and only if crtc
\* was the current screen's CRTC, and then current_screen becomes 0; removing
\* a CRTC that is not in the list returns false and changes nothing.
C14_RemoveExact ==
    [][call'.op = "remove" =>
        LET crtc == unwrap(call'.arg)
            keep(e) == e.crtc /= crtc
        IN  /\ panic' = ""
            /\ screens' = SelectSeq(screens, keep)
            /\ call'.ret = Some(current_crtc = Some(crtc))
            /\ call'.ret = Some(TRUE) => current_screen' = 0
            /\ (\A i \in 1..Len(screens) : screens[i].crtc /= crtc) =>
                  /\ call'.ret = Some(FALSE)
                  /\ UNCHANGED <<screens, current_screen>>]_vars

\* C15: once ScreenSet::new has returned Some, every state reached by update
\* and remove calls has at least one screen, and current() finds a screen.
C15_ActiveScreen ==
    /\ screens /= <<>>
    /\ is_some(ScreenSet_get(screens, current_screen))
    /\ panic = ""

\* C16: change_screen(f) with n = f(current_screen, screens.len()) sets
\* current_screen to n and returns true if n < screens.len(); otherwise it
\* returns false and leaves current_screen; the screens stay as they are.
C16_ChangeScreen ==
    [][call'.op = "change_screen" =>
        LET n == unwrap(call'.arg)
        IN  /\ screens' = screens
            /\ call'.ret = Some(n < Len(screens))
            /\ n < Len(screens) => current_screen' = n
            /\ ~(n < Len(screens)) => current_screen' = current_screen]_vars

\* change_screen has moved from the first to the second of two screens.
C16_Witness ==
    /\ call = Call("change_screen", Some(1), Some(TRUE))
    /\ Len(screens) = 2
    /\ current_screen = 1

\* The CRTCs of the entries, in the order of the list.
crtcs(scr) == [i \in 1..Len(scr) |-> scr[i].crtc]

\* C17: every CRTC occurs in at most one entry of screens; an update for a
\* known CRTC keeps the number and the order of the entries, an update for an
\* unknown CRTC appends exactly one entry, for that CRTC, at the end.
C17_UpdateUpsert ==
    /\ [](DistinctCrtcs(screens))
    /\ [][call'.op = "update" =>
            LET crtc == unwrap(call'.arg).crtc
            IN  IF \E i \in 1..Len(screens) : screens[i].crtc = crtc
                THEN crtcs(screens') = crtcs(screens)
                ELSE /\ crtcs(screens') = Append(crtcs(screens), crtc)
                     /\ SubSeq(screens', 1, Len(screens)) = screens]_vars

\* An update has appended a screen for a CRTC that was not in the list: the
\* second entry is for the CRTC of the change and has the tag stack of
\* Screen::default, which none of the initial screens has.
C17_Witness ==
    /\ call.op = "update"
    /\ Len(screens) = 2
    /\ screens[2].crtc = unwrap(call.arg).crtc
    /\ screens[1].crtc /= screens[2].crtc
    /\ screens[2].screen.tag_stack = TagStack_default
    /\ screens[1].screen.tag_stack /= TagStack_default

\* C18: after update(change) the area of the screen of change.crtc is
\* (x, y, width, height) of the change when the rotation has neither
\* ROTATE_90 nor ROTATE_270 set, and (y, x, height, width) when it has one.
C18_UpdateArea ==
    call.op = "update" =>
        LET change == unwrap(call.arg)
            swapped == "ROTATE_90" \in change.rotation
                          \/ "ROTATE_270" \in change.rotation
        IN  /\ \E i \in 1..Len(screens) : screens[i].crtc = change.crtc
            /\ \A i \in 1..Len(screens) :
                  screens[i].crtc = change.crtc =>
                      screens[i].screen.area =
                          IF swapped
                          THEN [offset_x |-> change.y, offset_y |-> change.x,
                                width |-> change.height, height |-> change.width]
                          ELSE [offset_x |-> change.x, offset_y |-> change.y,
                                width |-> change.width, height |-> change.height]

\* An update with ROTATE_270 and a non-zero x offset has swapped the axes.
C18_Witness ==
    /\ call.op = "update"
    /\ "ROTATE_270" \in unwrap(call.arg).rotation
    /\ unwrap(call.arg).x = MaxOff
    /\ \E i \in 1..Len(screens) :
          /\ screens[i].crtc = unwrap(call.arg).crtc
          /\ screens[i].screen.area.offset_y = MaxOff
          /\ screens[i].screen.area.height = MaxDim


\* C35: remove(crtc) of a CRTC that is not the current screen's leaves the
\* active screen as it was: current() is the screen of the same CRTC after
\* the call as before it, wherever the removed entry stood in the list.
C35_RemoveKeepsActive ==
    [][(/\ call'.op = "remove"
        /\ is_some(current_crtc)
        /\ current_crtc /= call'.arg) => current_crtc' = current_crtc]_vars

\* C39: update(change) changes only the area of the screen of change.crtc:
\* current_screen and every other screen are as before, and the screen of a
\* known CRTC keeps its tag stack and its four neighbours.
C39_UpdateFrame ==
    [][call'.op = "update" =>
        LET crtc == unwrap(call'.arg).crtc
        IN  /\ current_screen' = current_screen
            /\ \A i \in 1..Len(screens) :
                  /\ i <= Len(screens')
                  /\ screens'[i].crtc = screens[i].crtc
                  /\ screens[i].crtc /= crtc => screens'[i] = screens[i]
                  /\ screens[i].crtc = crtc =>
                        screens'[i].screen =
                            [screens[i].screen EXCEPT
                                !.area = screens'[i].screen.area]
            /\ \A i \in 1..Len(screens') :
                  i > Len(screens) => screens'[i].crtc = crtc]_vars

\* An update of the second of two known screens, which has kept its tag
\* stack (not the one of Screen::default) and has the area of the change.
C39_Witness ==
    /\ call.op = "update"
    /\ Len(screens) = 2
    /\ screens[2].crtc = unwrap(call.arg).crtc
    /\ screens[2].screen.tag_stack /= TagStack_default
    /\ screens[2].screen.area.width = unwrap(call.arg).width
    /\ screens[2].screen.area.offset_x = MaxOff
    /\ screens[1].screen.area.offset_x = 0

(***************************************************************************)
(* TagStack, driven through its public calls.                              *)
(***************************************************************************)
\* The vectors of tagsets handed to setup: the first n presets.
PresetVec(n) == [i \in 1..n |-> PresetTagSet(i - 1)]

setup(n, viewed) ==
    /\ tag_stack' = TagStack_setup(tag_stack, PresetVec(n), viewed)
    /\ call' = Call("setup", Some(<<n, viewed>>), None)
    /\ UNCHANGED <<screenVars, kbdVars, tree, clientVars, panic>>

push(new_index) ==
    /\ tag_stack' = TagStack_push(tag_stack, new_index)
    /\ call' = Call("push", Some(new_index), None)
    /\ UNCHANGED <<screenVars, kbdVars, tree, clientVars, panic>>

add_tagset(index) ==
    /\ tag_stack' = TagStack_add(tag_stack, index, PresetTagSet(index))
    /\ call' = Call("add", Some(index), Some(TagStack_add_ret(tag_stack, index)))
    /\ UNCHANGED <<screenVars, kbdVars, tree, clientVars, panic>>

remove_tagset(index) ==
    /\ tag_stack' = TagStack_remove(tag_stack, index)
    /\ call' = Call("remove", Some(index), Some(TagStack_remove_ret(tag_stack, index)))
    /\ UNCHANGED <<screenVars, kbdVars, tree, clientVars, panic>>

view_prev ==
    /\ tag_stack' = TagStack_view_prev(tag_stack)
    /\ call' = Call("view_prev", None, Some(TagStack_view_prev_ret(tag_stack)))
    /\ UNCHANGED <<screenVars, kbdVars, tree, clientVars, panic>>

set_hidden(hide) ==
    /\ tag_stack' = TagStack_set_hidden(tag_stack, hide)
    /\ call' = Call("set_hidden", Some(hide), None)
    /\ UNCHANGED <<screenVars, kbdVars, tree, clientVars, panic>>

InitTagStack ==
    /\ tag_stack = TagStack_default
    /\ IdleScreenSet /\ IdleKbd /\ IdleTree /\ IdleClientSet
    /\ call = NoCall
    /\ panic = ""

NextTagStack ==
    \/ \E n \in 0..(MaxIdx + 1), viewed \in 0..(MaxIdx + 1) : setup(n, viewed)
    \/ \E i \in Idx : push(i)
    \/ \E i \in Idx : add_tagset(i)
    \/ \E i \in Idx : remove_tagset(i)
    \/ view_prev
    \/ \E hide \in {{}, {"Work0"}} : set_hidden(hide)

SpecTagStack == InitTagStack /\ [][NextTagStack]_vars

history == tag_stack.history

\* C6: after any sequence of push calls the history has at most 4 entries; a
\* push of a key of tagsets makes that index history.last(); a push of an index
\* that is no key of tagsets leaves tagsets, hidden and history unchanged.
C6_HistoryCap ==
    /\ [](Len(history) <= 4)
    /\ [][call'.op = "push" =>
            IF unwrap(call'.arg) \in DOMAIN tag_stack.tagsets
            THEN /\ tag_stack'.history /= <<>>
                 /\ Last(tag_stack'.history) = unwrap(call'.arg)
            ELSE tag_stack' = tag_stack]_vars

\* A push onto a full history has happened.
C6_Witness ==
    /\ call.op = "push"
    /\ Len(history) = 4
    /\ Last(history) = unwrap(call.arg)
    /\ history[1] /= history[2]

\* C7: push(i) of a key appends i when fewer than 4 entries are stored and
\* otherwise keeps the last three entries in order and appends i; view_prev
\* removes exactly the last entry and returns true, or returns false and
\* changes nothing when the history is empty.
C7_PushViewPrev ==
    [][/\ (call'.op = "push" /\ unwrap(call'.arg) \in DOMAIN tag_stack.tagsets) =>
            /\ Len(history) < 4 =>
                  tag_stack'.history = history \o <<unwrap(call'.arg)>>
            /\ Len(history) = 4 =>
                  tag_stack'.history =
                      <<history[2], history[3], history[4], unwrap(call'.arg)>>
       /\ call'.op = "view_prev" =>
            IF history = <<>>
            THEN call'.ret = Some(FALSE) /\ tag_stack' = tag_stack
            ELSE /\ call'.ret = Some(TRUE)
                 /\ Len(tag_stack'.history) = Len(history) - 1
                 /\ \A k \in 1..(Len(history) - 1) :
                       tag_stack'.history[k] = history[k]
                 /\ tag_stack'.tagsets = tag_stack.tagsets
                 /\ tag_stack'.hidden = tag_stack.hidden]_vars

\* view_prev has popped the newest entry of a full history.
C7_Witness ==
    /\ call.op = "view_prev"
    /\ call.ret = Some(TRUE)
    /\ Len(history) = 3
    /\ history[1] /= history[2]

\* C27: right after set_hidden(hide) the hidden tags are the tags of the
\* current tagset that are in hide, or no tags at all when there is no
\* current tagset; the tagsets and the history are as before the call.
C27_SetHidden ==
    [][call'.op = "set_hidden" =>
        LET hide == unwrap(call'.arg)
            cur == TagStack_current(tag_stack)
        IN  /\ is_some(cur) => tag_stack'.hidden = unwrap(cur).tags \cap hide
            /\ ~is_some(cur) => tag_stack'.hidden = {}
            /\ tag_stack'.tagsets = tag_stack.tagsets
            /\ tag_stack'.history = tag_stack.history]_vars

\* A set_hidden that hid one of the two tags of the current tagset.
C27_Witness ==
    /\ call.op = "set_hidden"
    /\ unwrap(call.arg) = {"Work0"}
    /\ is_some(TagStack_current(tag_stack))
    /\ unwrap(TagStack_current(tag_stack)).tags = {"Work0", "Work1"}
    /\ tag_stack.hidden = {"Work0"}


\* C33: every index in the history is a key of tagsets, so that current()
\* and current_index() are None exactly when the history is empty.
C33_HistoryKnown ==
    /\ \A i \in 1..Len(history) : contains_key(tag_stack.tagsets, history[i])
    /\ (TagStack_current(tag_stack) = None) <=> (history = <<>>)
    /\ (TagStack_current_index(tag_stack) = None) <=> (history = <<>>)

\* A remove of a known index that left an older entry as the current one.
C33_Witness ==
    /\ call.op = "remove"
    /\ call.ret = Some(TRUE)
    /\ history /= <<>>
    /\ unwrap(call.arg) > Last(history)
    /\ is_some(TagStack_current(tag_stack))

\* C34: the hidden tags are tags of the current tagset, and there are none
\* when there is no current tagset.
C34_HiddenInCurrent ==
    IF is_some(TagStack_current(tag_stack))
    THEN tag_stack.hidden \subseteq unwrap(TagStack_current(tag_stack)).tags
    ELSE tag_stack.hidden = {}


\* C36: on a non-empty history, push(i) of a key of tagsets followed by
\* view_prev() returns true and leaves current_index() as it was before the
\* push, for every length of the history; the whole history is as before
\* when it had fewer than 4 entries, and has lost its oldest entry otherwise.
C36_PushThenViewPrev ==
    \A i \in DOMAIN tag_stack.tagsets :
        history /= <<>> =>
            LET pushed == TagStack_push(tag_stack, i)
                viewed == TagStack_view_prev(pushed)
            IN  /\ TagStack_view_prev_ret(pushed)
                /\ TagStack_current_index(viewed) = TagStack_current_index(tag_stack)
                /\ Len(history) < 4 => viewed.history = history
                /\ Len(history) = 4 => viewed.history = Tail(history)

\* A push onto a full history of four entries, of which view_prev brings
\* back the one that was current before the push.
C36_Witness ==
    /\ call.op = "push"
    /\ Len(history) = 4
    /\ history[4] = unwrap(call.arg)
    /\ history[3] /= history[4]
    /\ TagStack_current_index(TagStack_view_prev(tag_stack)) = Some(history[3])

(***************************************************************************)
(* Keyboard input: chords, chains, commands and the mode state machine.    *)
(***************************************************************************)
MaxKeysym == 3

\* The modifier bits that are ignored when chords are compared.
LockMask == 2
NumLockMask == 16
ScrollLockMask == 128

clear_bit(m, b) == IF (m \div b) % 2 = 1 THEN m - b ELSE m

filter_ignore_caps_only(m) == clear_bit(m, LockMask)

\* modmask::filter_ignore
filter_ignore(m) == clear_bit(clear_bit(clear_bit(m, LockMask), NumLockMask),
                              ScrollLockMask)

\* ChordDesc::new
ChordDesc_new(keysym, modmask) ==
    [keysym |-> keysym, modmask |-> filter_ignore(modmask)]

is_prefix_of_strict(self, other) ==
    /\ Len(self) < Len(other)
    /\ \A i \in 1..Len(self) : other[i] = self[i]

\* ChainDesc::is_prefix_of: other.chords.starts_with(&self.chords)
is_prefix_of(self, other) ==
    /\ Len(self) <= Len(other)
    /\ \A i \in 1..Len(self) : other[i] = self[i]

Permanent(m) == [kind |-> "Permanent", mode |-> m]
Temporary(m) == [kind |-> "Temporary", mode |-> m]
Shell(repr) == [kind |-> "Shell", arg |-> repr]
ModeSwitch(switch) == [kind |-> "ModeSwitch", arg |-> switch]

\* CmdDesc::run: a shell command is spawned, a mode switch is handed back.
CmdDesc_run(cmd) ==
    IF cmd.kind = "ModeSwitch" THEN Some(cmd.arg) ELSE None

\* The chords of the configured bindings.
ChordA == ChordDesc_new(1, 0)
ChordB == ChordDesc_new(2, 0)
ChordC == ChordDesc_new(3, 0)

Key(mode, chain) == [mode |-> mode, chain |-> chain]

\* A configuration: modes 0, 1 and 2, with temporary and permanent switches,
\* chains of one and two chords, and a chain that extends a bound chain.
AllBindings ==
    (Key(0, <<ChordA>>)         :> ModeSwitch(Temporary(1))) @@
    (Key(0, <<ChordB>>)         :> ModeSwitch(Permanent(1))) @@
    (Key(0, <<ChordC, ChordA>>) :> Shell("term")) @@
    (Key(1, <<ChordA>>)         :> Shell("menu")) @@
    (Key(1, <<ChordA, ChordB>>) :> Shell("lock")) @@
    (Key(1, <<ChordB, ChordA>>) :> Shell("pass")) @@
    (Key(1, <<ChordB, ChordB>>) :> ModeSwitch(Temporary(2))) @@
    (Key(1, <<ChordC>>)         :> ModeSwitch(Permanent(0))) @@
    (Key(2, <<ChordA>>)         :> Shell("org")) @@
    (Key(2, <<ChordB>>)         :> ModeSwitch(Permanent(0)))

\* The binding tables the machine is started with: the parts of AllBindings.
BindingTables ==
    {[k \in keys |-> AllBindings[k]] : keys \in SUBSET DOMAIN AllBindings}

\* The bindings of the current mode whose chain starts with the given chain.
Matching_any_mode(table, mode, chain) ==
    {k \in DOMAIN table : is_prefix_of(chain, k.chain)}

\* The bindings of the mode whose chain starts with the chain.
Matching(table, mode, chain) ==
    {k \in DOMAIN table : k.mode = mode /\ is_prefix_of(chain, k.chain)}

switch_mode_keeps_previous(switch) ==
    IF switch.kind = "Temporary"
    THEN /\ previous_mode' = Some(current_mode)
         /\ current_mode' = switch.mode
    ELSE /\ previous_mode' = previous_mode
         /\ current_mode' = switch.mode

\* Mode switching: a temporary switch remembers the mode to fall back to.
switch_mode(switch) ==
    IF switch.kind = "Temporary"
    THEN /\ previous_mode' = Some(current_mode)
         /\ current_mode' = switch.mode
    ELSE /\ previous_mode' = None
         /\ current_mode' = switch.mode

fallback_mode_stays ==
    UNCHANGED <<current_mode, previous_mode>>

fallback_mode_forgets ==
    /\ current_mode' = current_mode
    /\ previous_mode' = None

\* A temporary mode lapses: the previous mode, if any, is restored.
fallback_mode ==
    IF is_some(previous_mode)
    THEN /\ current_mode' = unwrap(previous_mode)
         /\ previous_mode' = None
    ELSE UNCHANGED <<current_mode, previous_mode>>

process_chord_prefix_first(keysym, modmask) ==
    LET chord == ChordDesc_new(keysym, modmask)
        chain == Append(pending_chain, chord)
        M == Matching(bindings, current_mode, chain)
        exact == Key(current_mode, chain)
        before == [chord |-> chord, mode |-> current_mode,
                   previous |-> previous_mode, pending |-> pending_chain]
    IN  /\ panic = ""
        /\ IF M = {}
           THEN /\ pending_chain' = <<>>
                /\ fallback_mode
                /\ call' = Call("key", Some(before), None)
           ELSE IF M = {exact}
           THEN LET res == CmdDesc_run(bindings[exact])
                IN  /\ pending_chain' = <<>>
                    /\ IF is_some(res) THEN switch_mode(unwrap(res))
                       ELSE fallback_mode
                    /\ call' = Call("key", Some(before), Some(bindings[exact]))
           ELSE /\ pending_chain' = chain
                /\ UNCHANGED <<current_mode, previous_mode>>
                /\ call' = Call("key", Some(before), None)
        /\ UNCHANGED <<bindings, screenVars, tag_stack, tree, clientVars, panic>>

\* The reaction to one key press.
process_chord(keysym, modmask) ==
    LET chord == ChordDesc_new(keysym, modmask)
        chain == Append(pending_chain, chord)
        M == Matching(bindings, current_mode, chain)
        exact == Key(current_mode, chain)
        before == [chord |-> chord, mode |-> current_mode,
                   previous |-> previous_mode, pending |-> pending_chain]
    IN  /\ panic = ""
        /\ IF M = {}
           THEN /\ pending_chain' = <<>>
                /\ fallback_mode
                /\ call' = Call("key", Some(before), None)
           ELSE IF exact \in M
           THEN LET res == CmdDesc_run(bindings[exact])
                IN  /\ pending_chain' = <<>>
                    /\ IF is_some(res) THEN switch_mode(unwrap(res))
                       ELSE fallback_mode
                    /\ call' = Call("key", Some(before), Some(bindings[exact]))
           ELSE /\ pending_chain' = chain
                /\ UNCHANGED <<current_mode, previous_mode>>
                /\ call' = Call("key", Some(before), None)
        /\ UNCHANGED <<bindings, screenVars, tag_stack, tree, clientVars, panic>>

InitKbd ==
    /\ bindings \in BindingTables
    /\ current_mode = 0
    /\ previous_mode = None
    /\ pending_chain = <<>>
    /\ IdleScreenSet /\ IdleTagStack /\ IdleTree /\ IdleClientSet
    /\ call = NoCall
    /\ panic = ""

NextKbd ==
    \E keysym \in 1..MaxKeysym, modmask \in {0, LockMask} :
        process_chord(keysym, modmask)

SpecKbd == InitKbd /\ [][NextKbd]_vars

\* The state the last key press was received in, and the chain it completed.
before == unwrap(call.arg)
received == before.pending \o <<before.chord>>

\* No binding of the mode has a chain that starts with the chain.
NoBindingStartsWith(mode, chain) ==
    \A k \in DOMAIN bindings :
        k.mode = mode =>
            \/ Len(k.chain) < Len(chain)
            \/ SubSeq(k.chain, 1, Len(chain)) /= chain

\* C8: in a temporary mode M1 entered from M0, the first chord after which no
\* binding of M1 starts with the pending chain sets current_mode back to M0,
\* clears pending_chain and invokes no command.
C8_ModeLapse ==
    (/\ call.op = "key"
     /\ is_some(before.previous)
     /\ NoBindingStartsWith(before.mode, received))
    => /\ current_mode = unwrap(before.previous)
       /\ pending_chain = <<>>
       /\ call.ret = None

\* A temporary mode has lapsed on the second chord of an unbound chain.
C8_Witness ==
    /\ call.op = "key"
    /\ is_some(before.previous)
    /\ before.pending /= <<>>
    /\ NoBindingStartsWith(before.mode, received)
    /\ current_mode = unwrap(before.previous)
    /\ current_mode /= before.mode

\* C9: a command returning ModeSwitch(Temporary(m)) in mode M0 makes m the
\* current mode and M0 the previous one; the next complete chain executed in m
\* (not itself a mode switch) makes M0 the current mode again and clears
\* previous_mode; without a previous mode (after a permanent switch) an
\* executed chain leaves the current mode as it is.
C9_TemporaryOneChain ==
    (call.op = "key" /\ is_some(call.ret)) =>
        LET cmd == unwrap(call.ret)
        IN  /\ (cmd.kind = "ModeSwitch" /\ cmd.arg.kind = "Temporary") =>
                  /\ current_mode = cmd.arg.mode
                  /\ previous_mode = Some(before.mode)
            /\ (cmd.kind /= "ModeSwitch" /\ is_some(before.previous)) =>
                  /\ current_mode = unwrap(before.previous)
                  /\ previous_mode = None
            /\ (cmd.kind /= "ModeSwitch" /\ before.previous = None) =>
                  /\ current_mode = before.mode
                  /\ previous_mode = None

\* A chain of two chords has been executed in a temporary mode.
C9_Witness ==
    /\ call.op = "key"
    /\ is_some(call.ret)
    /\ unwrap(call.ret).kind = "Shell"
    /\ Len(received) = 2
    /\ before.previous = Some(0)
    /\ before.mode = 1
    /\ current_mode = 0
    /\ previous_mode = None

\* C10: after a command returning ModeSwitch(Permanent(m)), current_mode = m,
\* previous_mode = None and pending_chain is empty; with no previous mode, a
\* chord after which no binding of the current mode starts with the pending
\* chain clears pending_chain, invokes no command and leaves current_mode.
C10_PermanentSwitch ==
    call.op = "key" =>
        /\ (is_some(call.ret) /\ unwrap(call.ret).kind = "ModeSwitch"
                /\ unwrap(call.ret).arg.kind = "Permanent") =>
              /\ current_mode = unwrap(call.ret).arg.mode
              /\ previous_mode = None
              /\ pending_chain = <<>>
        /\ (before.previous = None /\ NoBindingStartsWith(before.mode, received)) =>
              /\ pending_chain = <<>>
              /\ call.ret = None
              /\ current_mode = before.mode
              /\ previous_mode = None

\* Mode 1 was entered by a permanent switch (no temporary switch is bound in
\* mode 0) and a chord bound only in mode 0 has been dropped there.
C10_Witness ==
    /\ call.op = "key"
    /\ Key(0, <<ChordA>>) \notin DOMAIN bindings
    /\ Key(0, <<ChordB>>) \in DOMAIN bindings
    /\ before.mode = 1
    /\ before.previous = None
    /\ before.pending = <<>>
    /\ before.chord = ChordB
    /\ NoBindingStartsWith(1, <<ChordB>>)
    /\ current_mode = 1
    /\ pending_chain = <<>>
    /\ call.ret = None

\* A binding of the mode has a chain that strictly extends the chain.
SomeBindingExtends(mode, chain) ==
    \E k \in DOMAIN bindings :
        /\ k.mode = mode
        /\ Len(k.chain) > Len(chain)
        /\ SubSeq(k.chain, 1, Len(chain)) = chain

\* C11: when the pending chain with the received chord equals a chain bound
\* in the current mode, that binding's command is invoked on this chord and
\* pending_chain is cleared, whatever other bindings extend the chain; the
\* machine waits (keeps the chain pending) exactly when there is no exact
\* match and some binding of the mode strictly extends the chain.
C11_ExactMatchWins ==
    call.op = "key" =>
        LET exact == Key(before.mode, received)
        IN  /\ exact \in DOMAIN bindings =>
                  /\ call.ret = Some(bindings[exact])
                  /\ pending_chain = <<>>
            /\ pending_chain /= <<>> <=>
                  (/\ exact \notin DOMAIN bindings
                   /\ SomeBindingExtends(before.mode, received))
            /\ pending_chain /= <<>> => pending_chain = received /\ call.ret = None

\* In mode 1 the chain <<ChordA>> is bound and so is its extension
\* <<ChordA, ChordB>>; the chord ChordA has run the command of <<ChordA>>.
C11_Witness ==
    /\ call.op = "key"
    /\ before.mode = 1
    /\ received = <<ChordA>>
    /\ Key(1, <<ChordA>>) \in DOMAIN bindings
    /\ Key(1, <<ChordA, ChordB>>) \in DOMAIN bindings
    /\ call.ret = Some(Shell("menu"))
    /\ pending_chain = <<>>


\* C38: a chord has exactly one of three outcomes: it is dropped when no
\* binding of the mode starts with the pending chain, a command is
\* dispatched when the chain is bound, and the chain is kept pending
\* otherwise; a pending chain is always a strict prefix of some chain bound
\* in the current mode, so it never stays without a possible continuation.
C38_PendingHasContinuation ==
    /\ pending_chain /= <<>> => SomeBindingExtends(current_mode, pending_chain)
    /\ call.op = "key" =>
          LET dropped == pending_chain = <<>> /\ call.ret = None
              dispatched == pending_chain = <<>> /\ is_some(call.ret)
              waiting == pending_chain = received /\ call.ret = None
          IN  /\ dropped \/ dispatched \/ waiting
              /\ ~(dropped /\ dispatched) /\ ~(dropped /\ waiting)
                    /\ ~(dispatched /\ waiting)
              /\ dropped <=> NoBindingStartsWith(before.mode, received)
              /\ dispatched <=> Key(before.mode, received) \in DOMAIN bindings

\* The first chord of a chain of two chords bound in the current mode has
\* been received in a table that binds chains in the other mode as well.
C38_Witness ==
    /\ call.op = "key"
    /\ call.ret = None
    /\ pending_chain = received
    /\ Len(pending_chain) = 1
    /\ SomeBindingExtends(current_mode, pending_chain)
    /\ \E k \in DOMAIN bindings : k.mode /= current_mode

(***************************************************************************)
(* A SubsetTree, driven through its public calls.                          *)
(***************************************************************************)
\* The slots a call of add may take: one for the leaf, one for a split.
has_room(t) == arena_len(t) - Len(t.free) + 2 <= MaxSlots

tree_add(client, focus, direction, split) ==
    /\ panic = ""
    /\ has_room(tree)
    /\ LET t == SubsetTree_add(tree, client, focus, direction, split)
       IN  IF t.panicked
           THEN /\ panic' = "add"
                /\ tree' = tree
           ELSE /\ tree' = t
                /\ panic' = panic
    /\ call' = Call("add", Some(client), None)
    /\ UNCHANGED <<screenVars, tag_stack, kbdVars, clientVars>>

tree_remove_subtree ==
    /\ panic = ""
    /\ LET t == SubsetTree_remove_subtree(tree)
       IN  IF t.panicked
           THEN /\ panic' = "remove_subtree"
                /\ tree' = tree
           ELSE /\ tree' = t
                /\ panic' = panic
    /\ call' = Call("remove_subtree", None, None)
    /\ UNCHANGED <<screenVars, tag_stack, kbdVars, clientVars>>

tree_remove(window) ==
    /\ panic = ""
    /\ tree' = SubsetTree_remove(tree, window)
    /\ call' = Call("remove", Some(window), None)
    /\ UNCHANGED <<screenVars, tag_stack, kbdVars, clientVars, panic>>

tree_swap_subtrees(direction) ==
    /\ panic = ""
    /\ tree' = SubsetTree_swap_subtrees(tree, direction)
    /\ call' = Call("swap_subtrees", Some(direction), None)
    /\ UNCHANGED <<screenVars, tag_stack, kbdVars, clientVars, panic>>

tree_get_focused ==
    /\ panic = ""
    /\ IF SubsetTree_get_focused_panics(tree)
       THEN /\ panic' = "get_focused"
            /\ call' = Call("get_focused", None, None)
       ELSE /\ panic' = panic
            /\ call' = Call("get_focused", None, Some(SubsetTree_get_focused(tree)))
    /\ UNCHANGED <<screenVars, tag_stack, kbdVars, tree, clientVars>>

InitTree ==
    /\ tree = SubsetTree_new
    /\ IdleScreenSet /\ IdleTagStack /\ IdleKbd /\ IdleClientSet
    /\ call = NoCall
    /\ panic = ""

NextTree ==
    \/ \E client \in Windows, focus \in BOOLEAN, direction \in InsertBias,
          split \in SplitDirection : tree_add(client, focus, direction, split)
    \/ tree_remove_subtree
    \/ \E window \in Windows : tree_remove(window)
    \/ \E direction \in InsertBias : tree_swap_subtrees(direction)
    \/ tree_get_focused

SpecTree == InitTree /\ [][NextTree]_vars

\* The slots that hold an entry, and the client leaves among them.
LiveSlots(t) == {id \in DOMAIN t.arena : t.arena[id].kind /= "Vacant"}
Leaves(t) == {id \in LiveSlots(t) : t.arena[id].kind = "Client"}
Splits(t) == {id \in LiveSlots(t) : t.arena[id].kind = "Split"}

\* focused and selected, when set, are live client leaves; every child index
\* and every parent index stored in a live node is a live slot.
IndicesValid(t) ==
    /\ t.focused /= None => unwrap(t.focused) \in Leaves(t)
    /\ t.selected /= None => unwrap(t.selected) \in Leaves(t)
    /\ \A id \in LiveSlots(t) :
          t.arena[id].parent /= None => unwrap(t.arena[id].parent) \in LiveSlots(t)
    /\ \A id \in Splits(t) : Range(t.arena[id].children) \subseteq LiveSlots(t)

\* C4: after every mutating SubsetTree call, focused and selected are live
\* client leaves when set and every stored child and parent index is a live
\* slot; after remove_subtree, focused is not a freed slot and the former
\* parent does not list the removed node.
C4_IndicesValid == IndicesValid(tree)

\* The reference node of an add: selected, else focused.
reference_of(t) == IF is_some(t.selected) THEN t.selected ELSE t.focused

\* The splits of the second tree that the first one does not have.
NewSplits(t, after) == Splits(after) \ LiveSlots(t)

\* C29: add with NextToRight, when the reference has a parent, puts the new
\* leaf into the parent's children right after the reference, with NextToLeft
\* right before it, the other children keeping their order; when the
\* reference has no parent, a new split has the children <<new, reference>>
\* for NextToLeft and <<reference, new>> for NextToRight.
C29_AddNextTo ==
    \A client \in Windows, focus \in BOOLEAN, split \in SplitDirection,
       direction \in {"NextToLeft", "NextToRight"} :
        LET after == SubsetTree_add(tree, client, focus, direction, split)
            node == next_slot(tree)
        IN  (has_room(tree) /\ is_some(reference_of(tree)) /\ ~after.panicked) =>
                LET ref == unwrap(reference_of(tree))
                    gp == get_parent(tree, ref)
                IN  IF gp.ok
                    THEN LET old == tree.arena[gp.parent].children
                             at == IF direction = "NextToRight"
                                   THEN gp.index + 1 ELSE gp.index
                         IN  after.arena[gp.parent].children =
                                 SubSeq(old, 1, at) \o <<node>>
                                     \o SubSeq(old, at + 1, Len(old))
                    ELSE \E s \in NewSplits(tree, after) :
                            after.arena[s].children =
                                IF direction = "NextToLeft"
                                THEN <<node, ref>> ELSE <<ref, node>>

\* C30: add with BelowLeft / BelowRight wraps the reference: a new split of
\* the given direction has the children <<new, reference>> for BelowLeft and
\* <<reference, new>> for BelowRight and stands where the reference stood in
\* its former parent (it has no parent if the reference had none); all other
\* nodes keep their parent and their children.
C30_AddBelow ==
    \A client \in Windows, focus \in BOOLEAN, split \in SplitDirection,
       direction \in {"BelowLeft", "BelowRight"} :
        LET after == SubsetTree_add(tree, client, focus, direction, split)
            node == next_slot(tree)
        IN  (has_room(tree) /\ is_some(reference_of(tree)) /\ ~after.panicked) =>
                LET ref == unwrap(reference_of(tree))
                    gp == get_parent(tree, ref)
                IN  \E s \in NewSplits(tree, after) :
                       /\ after.arena[s].split = split
                       /\ after.arena[s].children =
                              IF direction = "BelowLeft"
                              THEN <<node, ref>> ELSE <<ref, node>>
                       /\ after.arena[ref].parent = Some(s)
                       /\ IF gp.ok
                          THEN /\ after.arena[s].parent = Some(gp.parent)
                               /\ after.arena[gp.parent].children =
                                      [tree.arena[gp.parent].children
                                          EXCEPT ![gp.index + 1] = s]
                          ELSE after.arena[s].parent = None
                       /\ \A id \in LiveSlots(tree) \ {ref} :
                             (gp.ok => id /= gp.parent) =>
                                 after.arena[id] = tree.arena[id]

\* The nodes of the tree that have no parent.
Orphans(t) == {id \in LiveSlots(t) : t.arena[id].parent = None}

\* The nodes reached from a node by following children.
RECURSIVE reachable_from(_, _, _)
reachable_from(t, node, fuel) ==
    IF fuel = 0 \/ ~live(t, node) THEN {}
    ELSE IF t.arena[node].kind = "Client" THEN {node}
    ELSE {node} \cup UNION {reachable_from(t, t.arena[node].children[i], fuel - 1) :
                                i \in 1..Len(t.arena[node].children)}

\* C31: after an add, root is set and names the only node without a parent,
\* and every client leaf is reached from it.
C31_RootSet ==
    (call.op = "add" /\ panic = "") =>
        /\ is_some(tree.root)
        /\ Orphans(tree) = {unwrap(tree.root)}
        /\ Leaves(tree) \subseteq reachable_from(tree, unwrap(tree.root), MaxSlots)

\* C32: add makes the new leaf the focused node iff focus is true or the
\* tree had no focused node; with focus false on a tree with a focused node,
\* focused and selected are as before and name the same window.
C32_AddFocus ==
    \A client \in Windows, focus \in BOOLEAN, split \in SplitDirection,
       direction \in InsertBias :
        LET after == SubsetTree_add(tree, client, focus, direction, split)
            node == next_slot(tree)
        IN  (has_room(tree) /\ ~after.panicked) =>
                /\ (after.focused = Some(node)) <=> (focus \/ tree.focused = None)
                /\ (~focus /\ is_some(tree.focused)) =>
                      /\ after.focused = tree.focused
                      /\ after.selected = tree.selected
                      /\ after.arena[unwrap(tree.focused)].kind =
                             tree.arena[unwrap(tree.focused)].kind
                      /\ after.arena[unwrap(tree.focused)].window =
                             tree.arena[unwrap(tree.focused)].window


\* C37: no unreachable!() arm of SubsetTree is reached: get_focused returns
\* None on a tree without a focused node and Some(window) of the focused
\* client leaf otherwise, and add never panics on its parent lookup.
C37_NoUnreachable ==
    /\ panic \notin {"get_focused", "add"}
    /\ call.op = "get_focused" =>
          call.ret = Some(IF tree.focused = None THEN None
                          ELSE Some(tree.arena[unwrap(tree.focused)].window))

(***************************************************************************)
(* Client and ClientSet                                                    *)
(***************************************************************************)
ClientTags == {"Work0", "Work1"}

\* Client::new (the properties of a client play no part in the model)
Client_new(window, tags) == [window |-> window, tags |-> tags]

\* Client::set_tags: an empty slice leaves the tags as they are.
Client_set_tags(client, tags) ==
    IF tags /= {} THEN [client EXCEPT !.tags = tags] ELSE client

Client_toggle_tag_removes_last(client, tag) ==
    IF tag \in client.tags
    THEN [client EXCEPT !.tags = client.tags \ {tag}]
    ELSE [client EXCEPT !.tags = client.tags \cup {tag}]

\* Client::toggle_tag: the last tag of a client is never removed.
Client_toggle_tag(client, tag) ==
    IF tag \in client.tags
    THEN IF Cardinality(client.tags) > 1
         THEN [client EXCEPT !.tags = client.tags \ {tag}]
         ELSE client
    ELSE [client EXCEPT !.tags = client.tags \cup {tag}]

\* Client::match_tags
match_tags(client, tags) == client.tags \cap tags /= {}

\* The closures handed to update_client.
ClientFuncs ==
    {[kind |-> "set_tags", tags |-> ts] : ts \in SUBSET ClientTags}
        \cup {[kind |-> "toggle_tag", tags |-> {t}] : t \in ClientTags}

apply_func(func, client) ==
    IF func.kind = "set_tags" THEN Client_set_tags(client, func.tags)
    ELSE Client_toggle_tag(client, CHOOSE t \in func.tags : TRUE)

ClientSet_value(cl, ord) == [clients |-> cl, order |-> ord]

\* HashMap::insert and HashMap::remove
map_insert(map, k, v) == [x \in DOMAIN map \cup {k} |-> IF x = k THEN v ELSE map[x]]
map_remove(map, k) == [x \in DOMAIN map \ {k} |-> map[x]]

\* ClientSet::add
ClientSet_add(cs, client, as_slave) ==
    [clients |-> map_insert(cs.clients, client.window, client),
     order |-> [tags \in DOMAIN cs.order |->
                  IF match_tags(client, tags)
                  THEN SubsetTree_add(cs.order[tags], client.window, TRUE,
                                      "NextToRight", "Vertical")
                  ELSE cs.order[tags]]]

ClientSet_remove_ret(cs, window) == window \in DOMAIN cs.clients

\* ClientSet::remove
ClientSet_remove(cs, window) ==
    IF window \in DOMAIN cs.clients
    THEN [clients |-> map_remove(cs.clients, window),
          order |-> [tags \in DOMAIN cs.order |->
                       SubsetTree_remove(cs.order[tags], window)]]
    ELSE cs

\* ClientSet::update_client returns Some(result of func) for a known window.
ClientSet_update_client_ret(cs, window) ==
    IF window \in DOMAIN cs.clients THEN Some("Redraw") ELSE None

ClientSet_update_client_twice(cs, window, func) ==
    IF window \in DOMAIN cs.clients
    THEN LET client == apply_func(func, apply_func(func, cs.clients[window]))
         IN  [clients |-> [cs.clients EXCEPT ![window] = client],
              order |-> [tags \in DOMAIN cs.order |->
                           IF ~match_tags(client, tags)
                           THEN SubsetTree_remove(cs.order[tags], window)
                           ELSE SubsetTree_add(cs.order[tags], window, FALSE,
                                               "NextToRight", "Vertical")]]
    ELSE cs

\* ClientSet::update_client
ClientSet_update_client(cs, window, func) ==
    IF window \in DOMAIN cs.clients
    THEN LET client == apply_func(func, cs.clients[window])
         IN  [clients |-> [cs.clients EXCEPT ![window] = client],
              order |-> [tags \in DOMAIN cs.order |->
                           IF ~match_tags(client, tags)
                           THEN SubsetTree_remove(cs.order[tags], window)
                           ELSE SubsetTree_add(cs.order[tags], window, FALSE,
                                               "NextToRight", "Vertical")]]
    ELSE cs

\* ClientSet::focus_offset: the body is commented out, false is returned.
ClientSet_focus_offset_ret(cs, tags, offset) == FALSE
ClientSet_focus_offset(cs, tags, offset) == cs

\* ClientSet::swap_offset: the body is commented out, false is returned.
ClientSet_swap_offset_ret(cs, tags, offset) == FALSE
ClientSet_swap_offset(cs, tags, offset) == cs

\* The tagsets whose ordering is requested.
TagsetKeys == {{"Work0"}, {"Work1"}}

RECURSIVE add_all(_, _)
add_all(t, windows) ==
    IF windows = <<>> THEN t
    ELSE add_all(SubsetTree_add(t, Head(windows), TRUE, "NextToRight", "Vertical"),
                 Tail(windows))

\* The ordering of a tagset is created when it is first requested; it holds
\* the clients visible on the tagset, in the order the client map yields them.
get_order_or_insert(cs, tags, windows) ==
    IF tags \in DOMAIN cs.order THEN cs
    ELSE [cs EXCEPT !.order = map_insert(cs.order, tags, add_all(SubsetTree_new, windows))]

\* The orders in which a set of windows can be enumerated.
Enumerations(S) ==
    {seq \in [1..Cardinality(S) -> S] : Range(seq) = S}

client_set == ClientSet_value(clients, order)

any_panicked(value) == \E tags \in DOMAIN value.order : value.order[tags].panicked

all_have_room(value) == \A tags \in DOMAIN value.order : has_room(value.order[tags])

\* A call on the client set: the new value, or a panic.
client_set_becomes(value, name) ==
    IF any_panicked(value)
    THEN /\ panic' = name
         /\ UNCHANGED clientVars
    ELSE /\ clients' = value.clients
         /\ order' = value.order
         /\ panic' = panic

add(window, tags, as_slave) ==
    /\ panic = ""
    /\ all_have_room(client_set)
    /\ client_set_becomes(ClientSet_add(client_set, Client_new(window, tags), as_slave), "add")
    /\ call' = Call("add", Some(window), None)
    /\ UNCHANGED <<screenVars, tag_stack, kbdVars, tree>>

remove(window) ==
    /\ panic = ""
    /\ client_set_becomes(ClientSet_remove(client_set, window), "remove")
    /\ call' = Call("remove", Some(window), Some(ClientSet_remove_ret(client_set, window)))
    /\ UNCHANGED <<screenVars, tag_stack, kbdVars, tree>>

update_client(window, func) ==
    /\ panic = ""
    /\ all_have_room(client_set)
    /\ client_set_becomes(ClientSet_update_client(client_set, window, func), "update_client")
    /\ call' = Call("update_client", Some(<<window, func>>),
                    ClientSet_update_client_ret(client_set, window))
    /\ UNCHANGED <<screenVars, tag_stack, kbdVars, tree>>

\* ClientSet::focus_next and focus_prev: focus_offset by 1 and by -1
focus_next(tags) ==
    /\ panic = ""
    /\ client_set_becomes(ClientSet_focus_offset(client_set, tags, 1), "focus_next")
    /\ call' = Call("focus_next", Some(tags),
                    Some(ClientSet_focus_offset_ret(client_set, tags, 1)))
    /\ UNCHANGED <<screenVars, tag_stack, kbdVars, tree>>

focus_prev(tags) ==
    /\ panic = ""
    /\ client_set_becomes(ClientSet_focus_offset(client_set, tags, -1), "focus_prev")
    /\ call' = Call("focus_prev", Some(tags),
                    Some(ClientSet_focus_offset_ret(client_set, tags, -1)))
    /\ UNCHANGED <<screenVars, tag_stack, kbdVars, tree>>

\* ClientSet::swap_next and swap_prev: swap_offset by 1 and by -1
swap_next(tags) ==
    /\ panic = ""
    /\ client_set_becomes(ClientSet_swap_offset(client_set, tags, 1), "swap_next")
    /\ call' = Call("swap_next", Some(tags),
                    Some(ClientSet_swap_offset_ret(client_set, tags, 1)))
    /\ UNCHANGED <<screenVars, tag_stack, kbdVars, tree>>

swap_prev(tags) ==
    /\ panic = ""
    /\ client_set_becomes(ClientSet_swap_offset(client_set, tags, -1), "swap_prev")
    /\ call' = Call("swap_prev", Some(tags),
                    Some(ClientSet_swap_offset_ret(client_set, tags, -1)))
    /\ UNCHANGED <<screenVars, tag_stack, kbdVars, tree>>

request_order(tags) ==
    /\ panic = ""
    /\ tags \notin DOMAIN order
    /\ \E windows \in Enumerations({w \in DOMAIN clients : match_tags(clients[w], tags)}) :
          client_set_becomes(get_order_or_insert(client_set, tags, windows), "get_order_or_insert")
    /\ call' = Call("get_order_or_insert", Some(tags), None)
    /\ UNCHANGED <<screenVars, tag_stack, kbdVars, tree>>

InitClientSet ==
    /\ clients = [w \in {} |-> Client_new(w, {})]
    /\ order = [tags \in {} |-> SubsetTree_new]
    /\ IdleScreenSet /\ IdleTagStack /\ IdleKbd /\ IdleTree
    /\ call = NoCall
    /\ panic = ""

NextClientSet ==
    \/ \E window \in Windows, tags \in (SUBSET ClientTags) \ {{}}, as_slave \in BOOLEAN :
          add(window, tags, as_slave)
    \/ \E window \in Windows : remove(window)
    \/ \E window \in Windows, func \in ClientFuncs : update_client(window, func)
    \/ \E tags \in TagsetKeys : request_order(tags)
    \/ \E tags \in TagsetKeys : focus_next(tags)
    \/ \E tags \in TagsetKeys : focus_prev(tags)
    \/ \E tags \in TagsetKeys : swap_next(tags)
    \/ \E tags \in TagsetKeys : swap_prev(tags)

SpecClientSet == InitClientSet /\ [][NextClientSet]_vars

\* The windows of the client leaves of a tree.
LeafWindows(t) == {t.arena[id].window : id \in Leaves(t)}

\* How often a node is listed among the children of a split.
Occurrences(children, id) == Cardinality({i \in 1..Len(children) : children[i] = id})

\* C2: after every mutating ClientSet call, for every tagset key T of order
\* and every window w: w is a client leaf of order[T] if and only if w is a
\* key of clients and the client's tags intersect T.
C2_TagIntersectionInclusion ==
    \A T \in DOMAIN order : \A w \in Windows :
        w \in LeafWindows(order[T])
            <=> (w \in DOMAIN clients /\ match_tags(clients[w], T))

\* C3: in every SubsetTree of the client set, every client leaf's window is a
\* key of clients, every node with a declared parent is listed by that parent
\* exactly once, and no split has fewer than two children.
C3_TreeInvariant ==
    \A T \in DOMAIN order :
        LET t == order[T]
        IN  /\ LeafWindows(t) \subseteq DOMAIN clients
            /\ \A id \in LiveSlots(t) :
                  t.arena[id].parent /= None =>
                      /\ unwrap(t.arena[id].parent) \in Splits(t)
                      /\ Occurrences(t.arena[unwrap(t.arena[id].parent)].children, id) = 1
            /\ \A id \in Splits(t) : Len(t.arena[id].children) >= 2

\* C5: add(c, as_slave) of a client whose window is no key of clients,
\* followed by remove(c.window), returns true and leaves the client set as it
\* was before the add; remove of a window that is no key of clients returns
\* false and changes nothing.
C5_AddRemoveRoundTrip ==
    \A w \in Windows \ DOMAIN clients :
        /\ ~ClientSet_remove_ret(client_set, w)
        /\ ClientSet_remove(client_set, w) = client_set
        /\ \A tags \in (SUBSET ClientTags) \ {{}}, as_slave \in BOOLEAN :
              LET added == ClientSet_add(client_set, Client_new(w, tags), as_slave)
              IN  /\ ClientSet_remove_ret(added, w)
                  /\ ClientSet_remove(added, w) = client_set

\* C13: in every SubsetTree of the client set, after any sequence of add,
\* update_client and remove calls, each window is referenced by at most one
\* client node.
C13_WindowInOneLeaf ==
    \A T \in DOMAIN order : \A w \in Windows :
        Cardinality({id \in Leaves(order[T]) : order[T].arena[id].window = w}) <= 1

\* C24: update_client(window, f) applies f once to the client of a known
\* window, leaves the other clients alone and returns Some; for an unknown
\* window it returns None and leaves clients and order as they are.
C24_UpdateClient ==
    [][(call'.op = "update_client" /\ panic' = "") =>
        LET window == unwrap(call'.arg)[1]
            func == unwrap(call'.arg)[2]
        IN  IF window \in DOMAIN clients
            THEN /\ is_some(call'.ret)
                 /\ DOMAIN clients' = DOMAIN clients
                 /\ clients'[window] = apply_func(func, clients[window])
                 /\ \A w \in DOMAIN clients \ {window} : clients'[w] = clients[w]
            ELSE /\ call'.ret = None
                 /\ UNCHANGED <<clients, order>>]_vars

\* toggle_tag(Work1) has been applied through update_client to the client of
\* window 1, which had the tag Work0 only.
C24_Witness ==
    /\ call.op = "update_client"
    /\ unwrap(call.arg) = <<1, [kind |-> "toggle_tag", tags |-> {"Work1"}]>>
    /\ is_some(call.ret)
    /\ 1 \in DOMAIN clients
    /\ clients[1].tags = {"Work0", "Work1"}

\* C25: add(client, as_slave) puts the window into every tree whose key the
\* client's tags intersect, with NextToRight when as_slave is false and
\* NextToLeft when it is true, focusing the new leaf unless the tree had a
\* focused node and as_slave is true; the other trees stay as they are.
C25_AddBias ==
    \A w \in Windows \ DOMAIN clients, tags \in (SUBSET ClientTags) \ {{}},
       as_slave \in BOOLEAN :
        LET added == ClientSet_add(client_set, Client_new(w, tags), as_slave)
            bias == IF as_slave THEN "NextToLeft" ELSE "NextToRight"
        IN  (all_have_room(client_set) /\ ~any_panicked(added)) =>
                \A T \in DOMAIN order :
                    IF tags \cap T /= {}
                    THEN LET focus == ~(is_some(order[T].focused) /\ as_slave)
                         IN  \E split \in SplitDirection :
                                added.order[T] =
                                    SubsetTree_add(order[T], w, focus, bias, split)
                    ELSE added.order[T] = order[T]

\* The node at the top of the tree a node is in.
RECURSIVE top_of(_, _, _)
top_of(t, node, fuel) ==
    IF fuel = 0 \/ ~live(t, node) \/ t.arena[node].parent = None THEN node
    ELSE top_of(t, unwrap(t.arena[node].parent), fuel - 1)

\* The client leaves below the nodes of a list, from left to right.
RECURSIVE leaves_below(_, _, _)
leaves_below(t, nodes, fuel) ==
    IF nodes = <<>> \/ fuel = 0 THEN <<>>
    ELSE LET node == Head(nodes)
             first == IF ~live(t, node) THEN <<>>
                      ELSE IF t.arena[node].kind = "Client" THEN <<node>>
                      ELSE leaves_below(t, t.arena[node].children, fuel - 1)
         IN  first \o leaves_below(t, Tail(nodes), fuel - 1)

\* The ordered leaf traversal of the tree the focused leaf is in.
Traversal(t) ==
    IF t.focused = None THEN <<>>
    ELSE leaves_below(t, <<top_of(t, unwrap(t.focused), MaxSlots)>>, 2 * MaxSlots)

\* The position of a node in a sequence of nodes, 0 if it is not in it.
position(nodes, node) ==
    IF \E i \in 1..Len(nodes) : nodes[i] = node
    THEN CHOOSE i \in 1..Len(nodes) : nodes[i] = node
    ELSE 0

\* C26: with n >= 2 leaves in the tree of a tagset and the focused leaf at
\* position i of the leaf traversal, focus_next focuses the leaf at position
\* (i + 1) mod n and focus_prev the one at (i - 1) mod n, returning true; a
\* focus or swap operation returns true iff it changed the client set.
C26_FocusNextPrev ==
    [][call'.op \in {"focus_next", "focus_prev", "swap_next", "swap_prev"} =>
        LET T == unwrap(call'.arg)
            ret == unwrap(call'.ret)
        IN  /\ ret <=> (<<clients, order>>' /= <<clients, order>>)
            /\ (call'.op \in {"focus_next", "focus_prev"} /\ T \in DOMAIN order) =>
                  LET leaves == Traversal(order[T])
                      n == Len(leaves)
                      i == position(leaves, unwrap(order[T].focused)) - 1
                      offset == IF call'.op = "focus_next" THEN 1 ELSE n - 1
                  IN  (n >= 2 /\ i >= 0) =>
                          /\ ret
                          /\ order'[T].focused = Some(leaves[((i + offset) % n) + 1])]_vars

(***************************************************************************)
(* Client objects, driven through Client::new, set_tags and toggle_tag.    *)
(* The variable clients holds the clients constructed so far, by window.   *)
(***************************************************************************)
\* Client::toggle_tag (the returned Option<bool>)
Client_toggle_tag_ret(client, tag) ==
    IF tag \in client.tags
    THEN IF Cardinality(client.tags) > 1 THEN Some(TRUE) ELSE None
    ELSE Some(FALSE)

\* The tag sets a caller can hand to Client::new and set_tags.
TagArgs == SUBSET ClientTags

client_new(window, tags) ==
    /\ panic = ""
    /\ clients' = map_insert(clients, window, Client_new(window, tags))
    /\ call' = Call("Client::new", Some(<<window, tags>>), None)
    /\ UNCHANGED <<screenVars, tag_stack, kbdVars, tree, order, panic>>

client_set_tags(window, tags) ==
    /\ panic = ""
    /\ window \in DOMAIN clients
    /\ clients' = [clients EXCEPT ![window] = Client_set_tags(@, tags)]
    /\ call' = Call("set_tags", Some(<<window, tags>>), None)
    /\ UNCHANGED <<screenVars, tag_stack, kbdVars, tree, order, panic>>

client_toggle_tag(window, tag) ==
    /\ panic = ""
    /\ window \in DOMAIN clients
    /\ clients' = [clients EXCEPT ![window] = Client_toggle_tag(@, tag)]
    /\ call' = Call("toggle_tag", Some(<<window, tag>>),
                    Client_toggle_tag_ret(clients[window], tag))
    /\ UNCHANGED <<screenVars, tag_stack, kbdVars, tree, order, panic>>

InitClient ==
    /\ IdleClientSet
    /\ IdleScreenSet /\ IdleTagStack /\ IdleKbd /\ IdleTree
    /\ call = NoCall
    /\ panic = ""

NextClient ==
    \/ \E window \in Windows, tags \in TagArgs : client_new(window, tags)
    \/ \E window \in Windows, tags \in TagArgs : client_set_tags(window, tags)
    \/ \E window \in Windows, tag \in ClientTags : client_toggle_tag(window, tag)

SpecClient == InitClient /\ [][NextClient]_vars

\* C12: the tag set of every client is non-empty after Client::new and after
\* any sequence of set_tags and toggle_tag calls.
C12_TagsNonEmpty == \A w \in DOMAIN clients : clients[w].tags /= {}


\* C28: toggle_tag(t) returns Some(false) and adds t when t was absent,
\* returns Some(true) and removes t when t was present with another tag, and
\* returns None and leaves the tags alone when t was the only tag; for a
\* client with non-empty tags a second toggle_tag(t) restores the tags the
\* client had before the first.
C28_ToggleTag ==
    [][call'.op = "toggle_tag" =>
        LET w == unwrap(call'.arg)[1]
            t == unwrap(call'.arg)[2]
            old_tags == clients[w].tags
            new_tags == clients'[w].tags
        IN  /\ t \notin old_tags =>
                call'.ret = Some(FALSE) /\ new_tags = old_tags \cup {t}
            /\ (t \in old_tags /\ old_tags /= {t}) =>
                call'.ret = Some(TRUE) /\ new_tags = old_tags \ {t}
            /\ old_tags = {t} => call'.ret = None /\ new_tags = old_tags
            /\ old_tags /= {} =>
                Client_toggle_tag(clients'[w], t).tags = old_tags]_vars

\* A toggle_tag of the only tag of a client, refused.
C28_Witness ==
    /\ call.op = "toggle_tag"
    /\ call.ret = None
    /\ clients[unwrap(call.arg)[1]].tags = {unwrap(call.arg)[2]}

(***************************************************************************)
(* The order of chords and the prefix relation of chains, applied to       *)
(* chords and chains drawn from bounded sets, one comparison a behaviour.   *)
(***************************************************************************)
MaxModMask == 5
MaxChainLen == 2

\* u32::cmp
u32_cmp(x, y) == IF x < y THEN "Less" ELSE IF x = y THEN "Equal" ELSE "Greater"

\* Ordering::then
Ordering_then(first, second) == IF first = "Equal" THEN second ELSE first

\* impl Ord for KeysymDesc
KeysymDesc_cmp(self, other) == u32_cmp(self, other)

ChordDesc_cmp_keysym_only(self, other) == KeysymDesc_cmp(self.keysym, other.keysym)

\* impl Ord for ChordDesc
ChordDesc_cmp(self, other) ==
    Ordering_then(KeysymDesc_cmp(self.keysym, other.keysym),
                  u32_cmp(self.modmask, other.modmask))

\* impl PartialOrd for ChordDesc
ChordDesc_partial_cmp(self, other) == Some(ChordDesc_cmp(self, other))

\* #[derive(PartialEq)] for ChordDesc
ChordDesc_eq(self, other) ==
    self.keysym = other.keysym /\ self.modmask = other.modmask

\* #[derive(PartialEq)] for ChainDesc: the chords are equal, one by one.
ChainDesc_eq(self, other) ==
    /\ Len(self) = Len(other)
    /\ \A i \in 1..Len(self) : ChordDesc_eq(self[i], other[i])

\* The chords compared, and the chains built from some of them.
Chords == {ChordDesc_new(keysym, modmask) :
              keysym \in 1..MaxKeysym, modmask \in 0..MaxModMask}
ChainChords == {ChordA, ChordB, ChordDesc_new(1, 1)}
Chains == UNION {[1..n -> ChainChords] : n \in 0..MaxChainLen}

compare_chords(a, b, c) ==
    /\ panic = ""
    /\ call = NoCall
    /\ call' = Call("cmp", Some(<<a, b, c>>),
                    Some([ab |-> ChordDesc_partial_cmp(a, b),
                          ba |-> ChordDesc_partial_cmp(b, a),
                          bc |-> ChordDesc_partial_cmp(b, c),
                          ac |-> ChordDesc_partial_cmp(a, c),
                          eq |-> ChordDesc_eq(a, b)]))
    /\ UNCHANGED <<screenVars, tag_stack, kbdVars, tree, clientVars, panic>>

compare_chains(a, b, c) ==
    /\ panic = ""
    /\ call = NoCall
    /\ call' = Call("is_prefix_of", Some(<<a, b, c>>),
                    Some([aa |-> is_prefix_of(a, a),
                          ab |-> is_prefix_of(a, b),
                          ba |-> is_prefix_of(b, a),
                          bc |-> is_prefix_of(b, c),
                          ac |-> is_prefix_of(a, c),
                          empty |-> is_prefix_of(<<>>, a),
                          eq |-> ChainDesc_eq(a, b)]))
    /\ UNCHANGED <<screenVars, tag_stack, kbdVars, tree, clientVars, panic>>

InitDesc ==
    /\ IdleScreenSet /\ IdleTagStack /\ IdleKbd /\ IdleTree /\ IdleClientSet
    /\ call = NoCall
    /\ panic = ""

NextDesc ==
    \/ \E a, b, c \in Chords : compare_chords(a, b, c)
    \/ \E a, b, c \in Chains : compare_chains(a, b, c)

SpecDesc == InitDesc /\ [][NextDesc]_vars

\* C19: for chords a, b, c: cmp(a, b) is Equal if and only if a == b, cmp(a, b)
\* is Less if and only if cmp(b, a) is Greater (so exactly one of a < b,
\* a == b, a > b holds), < is transitive, and a < b if and only if
\* a.keysym < b.keysym, or the keysyms are equal and a.modmask < b.modmask.
C19_ChordOrder ==
    call.op = "cmp" =>
        LET a == unwrap(call.arg)[1]
            b == unwrap(call.arg)[2]
            r == unwrap(call.ret)
            Lt(o) == o = Some("Less")
            Gt(o) == o = Some("Greater")
        IN  /\ r.ab \in {Some("Less"), Some("Equal"), Some("Greater")}
            /\ r.ab = Some("Equal") <=> r.eq
            /\ r.eq <=> a = b
            /\ Lt(r.ab) <=> Gt(r.ba)
            /\ Gt(r.ab) <=> Lt(r.ba)
            /\ (Lt(r.ab) /\ Lt(r.bc)) => Lt(r.ac)
            /\ Lt(r.ab) <=> \/ a.keysym < b.keysym
                            \/ a.keysym = b.keysym /\ a.modmask < b.modmask

\* Three chords with the same keysym and increasing modifier masks have been
\* compared.
C19_Witness ==
    /\ call.op = "cmp"
    /\ LET a == unwrap(call.arg)[1]
           b == unwrap(call.arg)[2]
           c == unwrap(call.arg)[3]
       IN  /\ a.keysym = b.keysym /\ b.keysym = c.keysym
           /\ a.modmask < b.modmask /\ b.modmask < c.modmask
    /\ unwrap(call.ret).ab = Some("Less")
    /\ unwrap(call.ret).ac = Some("Less")

\* C20: is_prefix_of is reflexive and transitive, the empty chain is a prefix
\* of every chain, and two chains that are prefixes of each other are equal.
C20_PrefixOrder ==
    call.op = "is_prefix_of" =>
        LET r == unwrap(call.ret)
        IN  /\ r.aa
            /\ r.empty
            /\ (r.ab /\ r.bc) => r.ac
            /\ (r.ab /\ r.ba) => r.eq

\* A chain of one chord, a chain of two chords that starts with it, and a
\* chain equal to the second one have been compared.
C20_Witness ==
    /\ call.op = "is_prefix_of"
    /\ LET a == unwrap(call.arg)[1]
           b == unwrap(call.arg)[2]
           c == unwrap(call.arg)[3]
       IN  Len(a) = 1 /\ Len(b) = 2 /\ b = c
    /\ unwrap(call.ret).ab
    /\ unwrap(call.ret).bc
    /\ unwrap(call.ret).ac
    /\ ~unwrap(call.ret).ba

(***************************************************************************)
(* Chord and chain descriptions, parsed from text.  A text is a sequence   *)
(* of atoms: the separators "+" and " " and pieces of words; the atoms     *)
(* between two separators, written one after the other, form one word.     *)
(***************************************************************************)
MaxStrLen == 5

ShiftMask == 1
Mod4Mask == 64

\* The texts handed to ChordDesc::from_string and to ChainDesc::from_string.
ChordAtoms == {"+", "$modkey", "Shift", "Lock", "q", "w"}
ChainAtoms == {" ", "+", "Shift", "q"}
ChordStrings == UNION {[1..n -> ChordAtoms] : n \in 0..MaxStrLen}
ChainStrings == UNION {[1..n -> ChainAtoms] : n \in 0..MaxStrLen}

\* The bits of a modifier mask.
ModBits == {ShiftMask, LockMask, NumLockMask, Mod4Mask, ScrollLockMask}
IgnoredBits == {LockMask, NumLockMask, ScrollLockMask}
has_bit(m, b) == (m \div b) % 2 = 1
set_bit(m, b) == IF has_bit(m, b) THEN m ELSE m + b

RECURSIVE or_bits(_, _, _)
or_bits(m, n, bits) ==
    IF bits = {} THEN m
    ELSE LET b == CHOOSE x \in bits : TRUE
         IN  or_bits(IF has_bit(n, b) THEN set_bit(m, b) ELSE m, n, bits \ {b})

combine_overwrite(m, n) == n

\* modmask::combine: m | n
combine(m, n) == or_bits(m, n, ModBits)

\* modmask::from_str: the bit of a modifier name, 0 for any other word.
modifier_bit(word) ==
    IF word = <<"Shift">> THEN ShiftMask
    ELSE IF word = <<"Lock">> THEN LockMask
    ELSE 0

\* xkb::Keysym::from_str: the keysym of a keysym name.
Keysym_from_str(word) ==
    IF word = <<"q">> THEN Some(1)
    ELSE IF word = <<"w">> THEN Some(2)
    ELSE None

\* str::split: the pieces of a text between the occurrences of a separator.
RECURSIVE split(_, _)
split(text, sep) ==
    IF \A i \in 1..Len(text) : text[i] /= sep
    THEN <<text>>
    ELSE LET i == CHOOSE k \in 1..Len(text) :
                     /\ text[k] = sep
                     /\ \A j \in 1..(k - 1) : text[j] /= sep
         IN  <<SubSeq(text, 1, i - 1)>> \o split(SubSeq(text, i + 1, Len(text)), sep)

Ok(value) == [ok |-> TRUE, value |-> value]
Err(error) == [ok |-> FALSE, error |-> error]
InvalidChord(desc) == [kind |-> "InvalidChord", desc |-> desc]

\* The loop of ChordDesc::from_string over the words from the i-th on.
RECURSIVE from_string_words(_, _, _, _, _)
from_string_words(words, i, modmask, modkey_mask, desc) ==
    IF i > Len(words) THEN Err(InvalidChord(desc))
    ELSE LET word == words[i]
         IN  IF word = <<"$modkey">>
             THEN from_string_words(words, i + 1, combine(modmask, modkey_mask),
                                    modkey_mask, desc)
             ELSE IF modifier_bit(word) /= 0
             THEN from_string_words(words, i + 1, combine(modmask, modifier_bit(word)),
                                    modkey_mask, desc)
             ELSE IF is_some(Keysym_from_str(word))
             THEN Ok([keysym |-> unwrap(Keysym_from_str(word)),
                      modmask |-> filter_ignore(modmask)])
             ELSE from_string_words(words, i + 1, modmask, modkey_mask, desc)

\* ChordDesc::from_string
ChordDesc_from_string(desc, modkey_mask) ==
    from_string_words(split(desc, "+"), 1, 0, modkey_mask, desc)

ChainDesc_from_string_lenient(desc, modkey_mask) ==
    LET pieces == split(desc, " ")
        parsed == [i \in 1..Len(pieces) |-> ChordDesc_from_string(pieces[i], modkey_mask)]
        good(r) == r.ok
        good_ones == SelectSeq(parsed, good)
    IN  Ok([i \in 1..Len(good_ones) |-> good_ones[i].value])

\* The loop of ChainDesc::from_string over the pieces from the i-th on.
RECURSIVE from_string_pieces(_, _, _, _)
from_string_pieces(pieces, i, chords, modkey_mask) ==
    IF i > Len(pieces) THEN Ok(chords)
    ELSE LET res == ChordDesc_from_string(pieces[i], modkey_mask)
         IN  IF res.ok
             THEN from_string_pieces(pieces, i + 1, Append(chords, res.value), modkey_mask)
             ELSE res

\* ChainDesc::from_string
ChainDesc_from_string(desc, modkey_mask) ==
    from_string_pieces(split(desc, " "), 1, <<>>, modkey_mask)

\* The modifier masks handed to ChordDesc::new: shift and the lock bits.
ModMaskArgs ==
    {m \in 0..(2 * ScrollLockMask - 1) :
        \A b \in 0..(2 * ScrollLockMask - 1) :
            (b \in {4, 8, 32, Mod4Mask}) => ~has_bit(m, b)}

new_chords(keysym, m1, m2) ==
    /\ panic = ""
    /\ call = NoCall
    /\ call' = Call("ChordDesc::new", Some(<<keysym, m1, m2>>),
                    Some(<<ChordDesc_new(keysym, m1), ChordDesc_new(keysym, m2)>>))
    /\ UNCHANGED <<screenVars, tag_stack, kbdVars, tree, clientVars, panic>>

parse_chord(desc, modkey_mask) ==
    /\ panic = ""
    /\ call = NoCall
    /\ call' = Call("ChordDesc::from_string", Some(<<desc, modkey_mask>>),
                    Some(ChordDesc_from_string(desc, modkey_mask)))
    /\ UNCHANGED <<screenVars, tag_stack, kbdVars, tree, clientVars, panic>>

parse_chain(desc, modkey_mask) ==
    /\ panic = ""
    /\ call = NoCall
    /\ call' = Call("ChainDesc::from_string", Some(<<desc, modkey_mask>>),
                    Some(ChainDesc_from_string(desc, modkey_mask)))
    /\ UNCHANGED <<screenVars, tag_stack, kbdVars, tree, clientVars, panic>>

InitParse ==
    /\ IdleScreenSet /\ IdleTagStack /\ IdleKbd /\ IdleTree /\ IdleClientSet
    /\ call = NoCall
    /\ panic = ""

\* One call is made in a behaviour: the arguments to draw from, none once
\* the call has been made.
Fresh(args) == IF call = NoCall THEN args ELSE {}

NextParse ==
    \/ \E keysym \in Fresh(1..MaxKeysym), m1, m2 \in ModMaskArgs : new_chords(keysym, m1, m2)
    \/ \E desc \in Fresh(ChordStrings) : parse_chord(desc, Mod4Mask)
    \/ \E desc \in Fresh(ChainStrings) : parse_chain(desc, Mod4Mask)

SpecParse == InitParse /\ [][NextParse]_vars

\* C21: a chord made by ChordDesc::new or ChordDesc::from_string has no
\* ignorable modifier bit in its modmask; two chords made from one keysym and
\* from masks that differ only in ignorable bits are equal, compare Equal, and
\* the chain of the one is a prefix of the same chains as the chain of the
\* other.
C21_IgnorableCleared ==
    /\ call.op = "ChordDesc::from_string" =>
          (unwrap(call.ret).ok =>
              \A b \in IgnoredBits : ~has_bit(unwrap(call.ret).value.modmask, b))
    /\ call.op = "ChordDesc::new" =>
          LET m1 == unwrap(call.arg)[2]
              m2 == unwrap(call.arg)[3]
              c1 == unwrap(call.ret)[1]
              c2 == unwrap(call.ret)[2]
          IN  /\ \A b \in IgnoredBits : ~has_bit(c1.modmask, b) /\ ~has_bit(c2.modmask, b)
              /\ (\A b \in ModBits \ IgnoredBits : has_bit(m1, b) <=> has_bit(m2, b)) =>
                    /\ ChordDesc_eq(c1, c2)
                    /\ ChordDesc_cmp(c1, c2) = "Equal"
                    /\ \A chain \in Chains :
                          is_prefix_of(<<c1>>, chain) <=> is_prefix_of(<<c2>>, chain)

\* Two chords have been made from the same keysym, one with shift and caps
\* lock, the other with shift, num lock and scroll lock: they are equal.
C21_Witness ==
    /\ call.op = "ChordDesc::new"
    /\ unwrap(call.arg)[2] = ShiftMask + LockMask
    /\ unwrap(call.arg)[3] = ShiftMask + NumLockMask + ScrollLockMask
    /\ unwrap(call.ret)[1] = unwrap(call.ret)[2]
    /\ unwrap(call.ret)[1].modmask = ShiftMask

\* The least element of a non-empty set of numbers.
Min(S) == CHOOSE x \in S : \A y \in S : x <= y

\* C22: from_string(desc, modkey) returns Ok at the first '+'-separated word
\* that is a keysym name, with that keysym and with exactly the bits of modkey
\* (if "$modkey" came before) and of the modifier words before it, ignorable
\* bits cleared; later words and unknown words do not matter; it returns
\* Err(InvalidChord(desc)) with the whole text iff no word is a keysym name.
C22_ChordFromString ==
    call.op = "ChordDesc::from_string" =>
        LET desc == unwrap(call.arg)[1]
            modkey == unwrap(call.arg)[2]
            res == unwrap(call.ret)
            words == split(desc, "+")
            keys == {k \in 1..Len(words) :
                        /\ words[k] /= <<"$modkey">>
                        /\ modifier_bit(words[k]) = 0
                        /\ is_some(Keysym_from_str(words[k]))}
        IN  IF keys = {}
            THEN ~res.ok /\ res.error = InvalidChord(desc)
            ELSE LET k == Min(keys)
                     given(b) == \E j \in 1..(k - 1) :
                                    \/ words[j] = <<"$modkey">> /\ has_bit(modkey, b)
                                    \/ modifier_bit(words[j]) = b
                 IN  /\ res.ok
                     /\ res.value.keysym = unwrap(Keysym_from_str(words[k]))
                     /\ res.value.modmask < 2 * ScrollLockMask
                     /\ \A b \in {1, 2, 4, 8, 16, 32, 64, 128} :
                           has_bit(res.value.modmask, b)
                               <=> (b \notin IgnoredBits /\ given(b))

\* "$modkey+Shift+q" has been parsed to the keysym q with Mod4 and Shift.
C22_Witness ==
    /\ call.op = "ChordDesc::from_string"
    /\ unwrap(call.arg)[1] = <<"$modkey", "+", "Shift", "+", "q">>
    /\ unwrap(call.ret).ok
    /\ unwrap(call.ret).value = [keysym |-> 1, modmask |-> Mod4Mask + ShiftMask]

\* C23: ChainDesc::from_string(desc, modkey) succeeds iff every piece of desc
\* between single spaces parses as a chord, and then returns the chords of the
\* pieces in their order; otherwise it returns the InvalidChord error of the
\* first piece that fails, empty pieces included.
C23_ChainFromString ==
    call.op = "ChainDesc::from_string" =>
        LET desc == unwrap(call.arg)[1]
            modkey == unwrap(call.arg)[2]
            res == unwrap(call.ret)
            pieces == split(desc, " ")
            parsed == [i \in 1..Len(pieces) |-> ChordDesc_from_string(pieces[i], modkey)]
            bad == {i \in 1..Len(pieces) : ~parsed[i].ok}
        IN  IF bad = {}
            THEN /\ res.ok
                 /\ Len(res.value) = Len(pieces)
                 /\ \A i \in 1..Len(pieces) : res.value[i] = parsed[i].value
            ELSE /\ ~res.ok
                 /\ res.error = InvalidChord(pieces[Min(bad)])

\* "q Shift+q" has been parsed to a chain of two different chords.
C23_Witness ==
    /\ call.op = "ChainDesc::from_string"
    /\ unwrap(call.arg)[1] = <<"q", " ", "Shift", "+", "q">>
    /\ unwrap(call.ret).ok
    /\ unwrap(call.ret).value = <<[keysym |-> 1, modmask |-> 0],
                                  [keysym |-> 1, modmask |-> ShiftMask]>>

(***************************************************************************)
(* The default configuration of the window manager: the binding table of   *)
(* setup_wm, keyed by keycode, modifier mask and mode, and the dispatch of *)
(* a key press on it.                                                      *)
(***************************************************************************)
ControlMask == 4

\* enum Mode; Mode::default() is Normal.
Modes == {"Normal", "Toggle", "Move", "Setup"}

\* The WmCommand a bound closure returns, as far as the mode machine sees it.
WmModeSwitch(mode) == [kind |-> "ModeSwitch", mode |-> mode]
WmQuit == [kind |-> "Quit"]
WmOther == [kind |-> "Other"]
WmNoBinding == [kind |-> "NoBinding"]

\* bind!(code, mods, mode, closure)
Bind(code, mods, mode, cmd) == [code |-> code, mods |-> mods, mode |-> mode, cmd |-> cmd]

\* The vector setup_wm hands to Wm::setup_bindings.
setup_wm ==
    { Bind(10, Mod4Mask, "Normal", WmOther),
      Bind(11, Mod4Mask, "Normal", WmOther),
      Bind(12, Mod4Mask, "Normal", WmOther),
      Bind(13, Mod4Mask, "Normal", WmOther),
      Bind(14, Mod4Mask, "Normal", WmOther),
      Bind(15, Mod4Mask, "Normal", WmOther),
      Bind(16, Mod4Mask, "Normal", WmOther),
      Bind(17, Mod4Mask, "Normal", WmOther),
      Bind(18, Mod4Mask, "Normal", WmOther),
      Bind(10, Mod4Mask, "Toggle", WmOther),
      Bind(11, Mod4Mask, "Toggle", WmOther),
      Bind(12, Mod4Mask, "Toggle", WmOther),
      Bind(13, Mod4Mask, "Toggle", WmOther),
      Bind(14, Mod4Mask, "Toggle", WmOther),
      Bind(15, Mod4Mask, "Toggle", WmOther),
      Bind(10, Mod4Mask, "Move", WmOther),
      Bind(11, Mod4Mask, "Move", WmOther),
      Bind(12, Mod4Mask, "Move", WmOther),
      Bind(13, Mod4Mask, "Move", WmOther),
      Bind(14, Mod4Mask, "Move", WmOther),
      Bind(15, Mod4Mask, "Move", WmOther),
      Bind(10, Mod4Mask, "Setup", WmOther),
      Bind(11, Mod4Mask, "Setup", WmOther),
      Bind(12, Mod4Mask, "Setup", WmOther),
      Bind(13, Mod4Mask, "Setup", WmOther),
      Bind(14, Mod4Mask, "Setup", WmOther),
      Bind(15, Mod4Mask, "Setup", WmOther),
      Bind(24, Mod4Mask + ControlMask, "Normal", WmQuit),
      Bind(24, Mod4Mask, "Normal", WmOther),
      Bind(25, Mod4Mask, "Normal", WmOther),
      Bind(25, Mod4Mask + ShiftMask, "Normal", WmOther),
      Bind(26, Mod4Mask, "Normal", WmOther),
      Bind(27, Mod4Mask, "Toggle", WmModeSwitch("Normal")),
      Bind(27, Mod4Mask, "Move", WmModeSwitch("Normal")),
      Bind(27, Mod4Mask, "Setup", WmModeSwitch("Normal")),
      Bind(28, Mod4Mask, "Normal", WmModeSwitch("Toggle")),
      Bind(28, Mod4Mask, "Move", WmModeSwitch("Toggle")),
      Bind(28, Mod4Mask, "Setup", WmModeSwitch("Toggle")),
      Bind(29, Mod4Mask, "Normal", WmModeSwitch("Move")),
      Bind(29, Mod4Mask, "Toggle", WmModeSwitch("Move")),
      Bind(29, Mod4Mask, "Setup", WmModeSwitch("Move")),
      Bind(30, Mod4Mask, "Normal", WmModeSwitch("Setup")),
      Bind(30, Mod4Mask, "Toggle", WmModeSwitch("Setup")),
      Bind(30, Mod4Mask, "Move", WmModeSwitch("Setup")),
      Bind(31, Mod4Mask, "Normal", WmOther),
      Bind(32, Mod4Mask, "Normal", WmOther),
      Bind(33, Mod4Mask, "Normal", WmOther),
      Bind(39, Mod4Mask, "Normal", WmOther),
      Bind(39, Mod4Mask + ControlMask, "Normal", WmOther),
      Bind(42, Mod4Mask, "Normal", WmOther),
      Bind(43, Mod4Mask, "Normal", WmOther),
      Bind(44, Mod4Mask, "Normal", WmOther),
      Bind(45, Mod4Mask, "Normal", WmOther),
      Bind(46, Mod4Mask, "Normal", WmOther),
      Bind(35, Mod4Mask, "Normal", WmOther),
      Bind(61, Mod4Mask, "Normal", WmOther),
      Bind(43, Mod4Mask + ShiftMask, "Normal", WmOther),
      Bind(44, Mod4Mask + ShiftMask, "Normal", WmOther),
      Bind(45, Mod4Mask + ShiftMask, "Normal", WmOther),
      Bind(46, Mod4Mask + ShiftMask, "Normal", WmOther),
      Bind(35, Mod4Mask + ShiftMask, "Normal", WmOther),
      Bind(61, Mod4Mask + ShiftMask, "Normal", WmOther),
      Bind(44, Mod4Mask + ControlMask, "Normal", WmOther),
      Bind(45, Mod4Mask + ControlMask, "Normal", WmOther),
      Bind(43, Mod4Mask + ControlMask, "Normal", WmOther),
      Bind(46, Mod4Mask + ControlMask, "Normal", WmOther),
      Bind(43, Mod4Mask + ControlMask + ShiftMask, "Normal", WmOther),
      Bind(46, Mod4Mask + ControlMask + ShiftMask, "Normal", WmOther),
      Bind(52, Mod4Mask, "Normal", WmOther),
      Bind(54, Mod4Mask + ShiftMask, "Normal", WmOther),
      Bind(121, 0, "Normal", WmOther),
      Bind(122, 0, "Normal", WmOther),
      Bind(123, 0, "Normal", WmOther),
      Bind(232, 0, "Normal", WmOther),
      Bind(233, 0, "Normal", WmOther) }

\* The key combinations grabbed: those of all bindings, whatever their mode.
GrabbedKeys == {<<b.code, b.mods>> : b \in setup_wm}

\* The command of the binding for the key in the mode, if there is one.
wm_command(table, mode, code, mods) ==
    LET found == {b \in table : b.mode = mode /\ b.code = code /\ b.mods = mods}
    IN  IF found = {} THEN WmNoBinding ELSE (CHOOSE b \in found : TRUE).cmd

wm_switch_mode_stays(mode, cmd) == mode

\* The mode after a command: ModeSwitch(m) makes m the mode.
wm_switch_mode(mode, cmd) ==
    IF cmd.kind = "ModeSwitch" THEN cmd.mode ELSE mode

\* The event loop has ended with a Quit command.
has_quit == call.op = "key_press" /\ call.ret = Some(WmQuit)

\* A key press of a grabbed key combination: the binding of the current mode
\* is run, if there is one.
key_press(code, mods) ==
    LET cmd == wm_command(bindings, current_mode, code, mods)
    IN  /\ ~has_quit
        /\ current_mode' = wm_switch_mode(current_mode, cmd)
        /\ call' = Call("key_press",
                        Some([code |-> code, mods |-> mods, mode |-> current_mode]),
                        Some(cmd))
        /\ UNCHANGED <<bindings, previous_mode, pending_chain, screenVars,
                       tag_stack, tree, clientVars, panic>>

InitWm ==
    /\ bindings = setup_wm
    /\ current_mode = "Normal"
    /\ previous_mode = None
    /\ pending_chain = <<>>
    /\ IdleScreenSet /\ IdleTagStack /\ IdleTree /\ IdleClientSet
    /\ call = NoCall
    /\ panic = ""

NextWm == \E key \in GrabbedKeys : key_press(key[1], key[2])

SpecWm == InitWm /\ [][NextWm]_vars

\* Quit is the command of some key in the mode.
QuitBoundIn(mode) ==
    \E key \in GrabbedKeys : wm_command(bindings, mode, key[1], key[2]) = WmQuit

\* Quit can be issued from the mode with at most two key presses.
QuitWithinTwo(mode) ==
    \/ QuitBoundIn(mode)
    \/ \E key \in GrabbedKeys :
          QuitBoundIn(wm_switch_mode(mode, wm_command(bindings, mode, key[1], key[2])))

\* C40: in the default binding table every mode is entered from every other
\* mode by one chord (modkey with keycode 27 for Normal, 28 for Toggle, 29
\* for Move, 30 for Setup), Quit is bound only in Normal mode, to modkey +
\* CTRL + keycode 24, and from every mode reached Quit can be issued with at
\* most two chords.
C40_QuitReachable ==
    LET switch_code(mode) ==
            CASE mode = "Normal" -> 27 [] mode = "Toggle" -> 28
              [] mode = "Move" -> 29 [] OTHER -> 30
    IN  /\ \A from \in Modes : \A to \in Modes \ {from} :
              wm_switch_mode(from,
                  wm_command(bindings, from, switch_code(to), Mod4Mask)) = to
        /\ \A b \in bindings :
              b.cmd = WmQuit =>
                  b.mode = "Normal" /\ b.code = 24 /\ b.mods = Mod4Mask + ControlMask
        /\ wm_command(bindings, "Normal", 24, Mod4Mask + ControlMask) = WmQuit
        /\ current_mode \in Modes
        /\ QuitWithinTwo(current_mode)
        /\ has_quit => unwrap(call.arg).mode = "Normal"

\* Setup mode has been entered from another mode with modkey + keycode 30;
\* Quit is not bound there and takes two chords.
C40_Witness ==
    /\ call.op = "key_press"
    /\ unwrap(call.arg).mode = "Move"
    /\ unwrap(call.arg).code = 30
    /\ current_mode = "Setup"
    /\ ~QuitBoundIn(current_mode)
    /\ QuitWithinTwo(current_mode)

====
